---- MODULE Spec2Model ----
(***************************************************************************)
(* A model of pygly2: the glycan graph (Monosaccharide / Link / Glycan),   *)
(* the fragmentation engine (Glycan.fragments / Glycan.break_links), the   *)
(* condensed GlycoCT parser (GlycoCT.parse) and the Monosaccharide         *)
(* modification operations.                                                *)
(***************************************************************************)
EXTENDS Integers, Sequences, FiniteSets, TLC

VARIABLES
    src,      \* the Glycan the caller holds (graph value, see MkGraph)
    work,     \* the Glycan the running generator mutates ("none" before the clone)
    gen,      \* the frame of the fragments()/break_links() generator
    out,      \* the fragments the generator has yielded so far
    snap,     \* src as it was when fragments() was called
    mono,     \* a Monosaccharide under add_/drop_modification
    monoLast, \* the last Monosaccharide operation and its outcome
    parser,   \* the GlycoCT parser object: state, root, graph, in-progress structure
    pout,     \* the Glycans the parser has yielded, and how the parse ended
    duo,      \* two Monosaccharides, the Link between them and the last call on them
    omm,      \* an OrderedMultiMap and the last call on it
    tree,     \* a Glycan under reindex, traversal and label_branches
    strees,   \* the frame of the substructures()/break_links_subtrees() generator
    eq        \* a Glycan under construction and its topological comparisons

vars == <<src, work, gen, out, snap, mono, monoLast, parser, pout, duo, omm, tree,
          strees, eq>>

(***************************************************************************)
(* Bounds of the model.                                                    *)
(***************************************************************************)
MaxNodes == 3
MaxCleavages == 2
MaxPairs == 2
SuperclassSize == 3
MaxStored == 2
MaxBound == 1
MaxTokens == 6

(***************************************************************************)
(* Sequence helpers.                                                       *)
(***************************************************************************)
Range(s) == {s[i] : i \in DOMAIN s}

RECURSIVE SeqSum(_)
SeqSum(s) == IF s = <<>> THEN 0 ELSE s[1] + SeqSum(Tail(s))

Perms(n) == {p \in [1..n -> 1..n] : \A i, j \in 1..n : i # j => p[i] # p[j]}

(***************************************************************************)
(* Composition: element counts.                                            *)
(***************************************************************************)
Comp(c, h, o) == [C |-> c, H |-> h, O |-> o]
CZero == Comp(0, 0, 0)
CAdd(a, b) == [C |-> a.C + b.C, H |-> a.H + b.H, O |-> a.O + b.O]
CSub(a, b) == [C |-> a.C - b.C, H |-> a.H - b.H, O |-> a.O - b.O]
H2O == Comp(0, 2, 1)

\* structure_composition._monosaccharide_compositions["hex"]
HexComposition == Comp(6, 12, 6)
\* add_monosaccharide defaults: parent_loss = Composition(H=1),
\* child_loss = Composition(H=1, O=1)
DefaultParentLoss == Comp(0, 1, 0)
DefaultChildLoss == Comp(0, 1, 1)
\* add_substituent defaults: both sides lose one H
SubstituentLoss == Comp(0, 1, 0)
\* _substituent_compositions["methyl"]
MethylComposition == Comp(1, 4, 0)

\* a shift table that takes nothing from any ion
fragment_shift_none(k) == CZero

\* glycan.fragment_shift
fragment_shift(k) ==
    CASE k = "B" -> Comp(0, 2, 1)
      [] k = "Y" -> CZero
      [] k = "C" -> CZero
      [] k = "Z" -> Comp(0, 2, 1)

(***************************************************************************)
(* The graph.  Nodes are 1..n (object identities, not the id attribute);   *)
(* link objects are the indices of the sequence L.  items[x] is the order  *)
(* in which x.links.items() produces x's Link objects.                     *)
(***************************************************************************)
\* Link.label: None, or a branch symbol followed by a depth ("a2")
NoLabel == [key |-> "None", depth |-> 0]
Label(key, depth) == [key |-> key, depth |-> depth]

MkLink(parent, child, ppos, cpos, ploss, closs, id) ==
    [parent |-> parent, child |-> child, ppos |-> ppos, cpos |-> cpos,
     ploss |-> ploss, closs |-> closs, att |-> TRUE, id |-> id, label |-> NoLabel]

\* Link.to(x): the other endpoint
LinkTo(l, x) == IF l.parent = x THEN l.child ELSE l.parent

\* Link.is_attached()
is_attached(l) == l.att

\* Link.__iter__: the endpoints of an attached link; a detached link joins nothing
LinkTerminals(l) == IF is_attached(l) THEN <<l.parent, l.child>> ELSE <<>>

\* the position under which link l is stored in x.links
PosAt(l, x) == IF l.parent = x THEN l.ppos ELSE l.cpos

\* OrderedMultiMap.__setitem__ as seen through items(): a value whose key was
\* seen before joins that key's values, a new key goes last.
RECURSIVE LastWithPos(_, _, _, _)
LastWithPos(G, x, its, pos) ==
    IF its = <<>> THEN 0
    ELSE IF PosAt(G.L[its[Len(its)]], x) = pos THEN Len(its)
    ELSE LastWithPos(G, x, SubSeq(its, 1, Len(its) - 1), pos)

MapPut(G, x, its, li) ==
    LET k == LastWithPos(G, x, its, PosAt(G.L[li], x))
    IN IF k = 0 THEN Append(its, li)
       ELSE SubSeq(its, 1, k) \o <<li>> \o SubSeq(its, k + 1, Len(its))

\* Monosaccharide.children(): the links of x in which x is not the child
ChildLinks(G, x) == SelectSeq(G.items[x], LAMBDA i : G.L[i].child # x)

\* Monosaccharide.order()
order(G, x) == Len(ChildLinks(G, x)) + G.nsub[x]

\* Monosaccharide.total_composition(): own composition plus each substituent
total_composition(G, x) ==
    LET sub == CSub(MethylComposition, SubstituentLoss)
    IN [C |-> G.comp[x].C + G.nsub[x] * sub.C,
        H |-> G.comp[x].H + G.nsub[x] * sub.H,
        O |-> G.comp[x].O + G.nsub[x] * sub.O]

\* sorted(..., key=methodcaller("order")): stable, ascending by order()
RECURSIVE InsertByOrder(_, _, _)
InsertByOrder(G, s, x) ==
    IF s = <<>> THEN <<x>>
    ELSE IF order(G, s[Len(s)]) <= order(G, x) THEN Append(s, x)
    ELSE Append(InsertByOrder(G, SubSeq(s, 1, Len(s) - 1), x), s[Len(s)])

RECURSIVE SortedByOrder(_, _)
SortedByOrder(G, s) ==
    IF s = <<>> THEN <<>>
    ELSE InsertByOrder(G, SortedByOrder(G, SubSeq(s, 1, Len(s) - 1)), s[Len(s)])

(***************************************************************************)
(* Traversal (Glycan.depth_first_traversal) and Glycan.iterlinks.          *)
(***************************************************************************)
RECURSIVE FlatTerminals(_, _, _, _)
FlatTerminals(G, x, its, visited) ==
    IF its = <<>> THEN <<>>
    ELSE SelectSeq(LinkTerminals(G.L[its[1]]), LAMBDA t : G.id[t] \notin visited)
         \o FlatTerminals(G, x, Tail(its), visited)

RECURSIVE DfsRun(_, _, _, _)
DfsRun(G, stack, visited, acc) ==
    IF stack = <<>> THEN acc
    ELSE LET node == stack[Len(stack)]
             v2 == visited \cup {G.id[node]}
             ext == SortedByOrder(G, FlatTerminals(G, node, G.items[node], v2))
         IN DfsRun(G, SubSeq(stack, 1, Len(stack) - 1) \o ext, v2, Append(acc, node))

depth_first_traversal(G, from) == DfsRun(G, <<from>>, {}, <<>>)

RECURSIVE LinksOf(_, _, _, _)
LinksOf(G, its, seen, acc) ==
    IF its = <<>> THEN [seen |-> seen, acc |-> acc]
    ELSE IF G.L[its[1]].id \in seen THEN LinksOf(G, Tail(its), seen, acc)
    ELSE LinksOf(G, Tail(its), seen \cup {G.L[its[1]].id}, Append(acc, its[1]))

RECURSIVE IterLinksRun(_, _, _, _)
IterLinksRun(G, nodes, seen, acc) ==
    IF nodes = <<>> THEN acc
    ELSE LET r == LinksOf(G, G.items[nodes[1]], seen, acc)
         IN IterLinksRun(G, Tail(nodes), r.seen, r.acc)

iterlinks(G, from) == IterLinksRun(G, depth_first_traversal(G, from), {}, <<>>)

(***************************************************************************)
(* Glycan.breadth_first_traversal, and the traversal a method names.       *)
(***************************************************************************)
RECURSIVE BfsRun(_, _, _, _)
BfsRun(G, queue, visited, acc) ==
    IF queue = <<>> THEN acc
    ELSE LET node == queue[1]
             v2 == visited \cup {G.id[node]}
             ext == SortedByOrder(G, FlatTerminals(G, node, G.items[node], v2))
         IN BfsRun(G, Tail(queue) \o ext, v2, Append(acc, node))

breadth_first_traversal(G, from) == BfsRun(G, <<from>>, {}, <<>>)

\* _get_traversal_method(method), called on the root
get_traversal_method(G, method) ==
    IF method = "bfs" THEN breadth_first_traversal(G, G.root)
    ELSE depth_first_traversal(G, G.root)

\* iterlinks(method=method)
IterLinksBy(G, method) == IterLinksRun(G, get_traversal_method(G, method), {}, <<>>)

(***************************************************************************)
(* Glycan.label_branches.  branch_lengths is a dict, written as the        *)
(* sequence of its assignments.                                            *)
(***************************************************************************)
MAIN_BRANCH_SYM == "-"
Letters == <<"a", "b", "c", "d", "e", "f">>

DictHas(pairs, key) == \E j \in DOMAIN pairs : pairs[j].key = key
DictGet(pairs, key) ==
    LET j == CHOOSE j \in DOMAIN pairs :
                 pairs[j].key = key /\ \A h \in (j + 1)..Len(pairs) : pairs[h].key # key
    IN pairs[j].value
DictSet(pairs, key, value) == Append(pairs, [key |-> key, value |-> value])
DictItems(pairs) == {<<pairs[j].key, DictGet(pairs, pairs[j].key)>> : j \in DOMAIN pairs}

\* chrinc(last_branch_label), 'a' after the main branch symbol
NextLetter(last) ==
    IF last = MAIN_BRANCH_SYM THEN "a"
    ELSE Letters[(CHOOSE j \in DOMAIN Letters : Letters[j] = last) + 1]

\* Monosaccharide.parents() as Links: the links of x in which x is not the parent
ParentLinksOf(G, x) == SelectSeq(G.items[x], LAMBDA i : G.L[i].parent # x)

\* get_parent_link(node): the first symbol of the label of the first Link
\* stored in node.links under the position of the first parent
get_parent_link(G, node) ==
    IF ParentLinksOf(G, node) = <<>> THEN MAIN_BRANCH_SYM
    ELSE LET pos == PosAt(G.L[ParentLinksOf(G, node)[1]], node)
             at == SelectSeq(G.items[node], LAMBDA i : PosAt(G.L[i], node) = pos)
             label == G.L[at[1]].label
         IN IF label = NoLabel THEN MAIN_BRANCH_SYM ELSE label.key

\* the for loop over the links of a branch point (or of a leaf: no links)
RECURSIVE LabelBranchPoint(_, _, _)
LabelBranchPoint(S, links, count) ==
    IF links = <<>> THEN S
    ELSE LET new_label_key == NextLetter(S.last_branch_label)
         IN LabelBranchPoint(
                [S EXCEPT !.last_branch_label = new_label_key,
                          !.branch_lengths = DictSet(@, new_label_key, count + 1),
                          !.G.L[links[1]].label = Label(new_label_key, count + 1)],
                Tail(links), count)

\* the body of "for node in self"
LabelNode(S, node) ==
    LET links == ChildLinks(S.G, node)
        label_key == get_parent_link(S.G, node)
    IN IF ~DictHas(S.branch_lengths, label_key) THEN [S EXCEPT !.error = "KeyError"]
       ELSE IF Len(links) = 1
       THEN LET depth == DictGet(S.branch_lengths, label_key) + 1
            IN [S EXCEPT !.branch_lengths = DictSet(@, label_key, depth),
                         !.G.L[links[1]].label = Label(label_key, depth)]
       ELSE LabelBranchPoint(S, links, DictGet(S.branch_lengths, label_key))

RECURSIVE LabelRun(_, _)
LabelRun(S, nodes) ==
    IF nodes = <<>> \/ S.error # "none" THEN S
    ELSE LabelRun(LabelNode(S, nodes[1]), Tail(nodes))

\* max(self.branch_lengths.values())
MaxValue(pairs) ==
    CHOOSE v \in {it[2] : it \in DictItems(pairs)} :
        \A it \in DictItems(pairs) : it[2] <= v

\* label_branches(): the graph with its labels, branch_lengths, and the
\* exception the call ended in, if any
label_branches(G) ==
    LET S == LabelRun([G |-> G, last_branch_label |-> MAIN_BRANCH_SYM,
                       branch_lengths |-> DictSet(<<>>, MAIN_BRANCH_SYM, 0),
                       error |-> "none"],
                      depth_first_traversal(G, G.root))
        final == IF S.error # "none" THEN S.branch_lengths
                 ELSE DictSet(S.branch_lengths, MAIN_BRANCH_SYM, MaxValue(S.branch_lengths))
    IN [G |-> [S.G EXCEPT !.branch_lengths = DictItems(final)],
        branch_lengths |-> final, error |-> S.error]

(***************************************************************************)
(* Glycan.deindex and Glycan.reindex.                                      *)
(***************************************************************************)
\* uuid4().int: a base far from every id in use
UuidBase == 1000

deindex(G) ==
    IF Len(G.index) > 0
    THEN [G EXCEPT
            !.id = [x \in DOMAIN G.id |->
                      IF x \in Range(G.index) THEN -(G.id[x] + UuidBase) ELSE G.id[x]],
            !.L = [i \in DOMAIN G.L |->
                      IF i \in Range(G.link_index)
                      THEN [G.L[i] EXCEPT !.id = -(G.L[i].id + UuidBase)]
                      ELSE G.L[i]]]
    ELSE G

\* the id a sequential numbering leaves on x: its last place in s
PositionIn(s, x) ==
    CHOOSE i \in DOMAIN s : s[i] = x /\ \A j \in (i + 1)..Len(s) : s[j] # x

\* deindex, then the ids and the two indexes: reindex up to label_branches
IndexBy(G0, method) ==
    LET G1 == deindex(G0)
        index == get_traversal_method(G1, method)
        G2 == [G1 EXCEPT !.id = [x \in DOMAIN G1.id |->
                      IF x \in Range(index) THEN PositionIn(index, x) ELSE G1.id[x]]]
        link_index == IterLinksBy(G2, method)
    IN [G2 EXCEPT
            !.L = [i \in DOMAIN G2.L |->
                      IF i \in Range(link_index)
                      THEN [G2.L[i] EXCEPT !.id = PositionIn(link_index, i)]
                      ELSE G2.L[i]],
            !.index = index,
            !.link_index = link_index]

\* reindex(method): the Glycan, its branch_lengths, how label_branches ended
reindex_by(G0, method) == label_branches(IndexBy(G0, method))

\* reindex() with the default method
reindex(G0) == reindex_by(G0, "dfs").G

(***************************************************************************)
(* Building a graph: Monosaccharide(), Link(...), graph_clone, Glycan().   *)
(***************************************************************************)
\* uuid4().int given to a new Monosaccharide / Link that is handed no id
FreshNodeId(x) == 100 + x
FreshLinkId(i) == 200 + i

\* _get_standard_composition for an unmodified hexose carrying nsub substituents,
\* each bound by a Link that takes SubstituentLoss from the residue
StandardComposition(nsub) ==
    [C |-> HexComposition.C - nsub * SubstituentLoss.C,
     H |-> HexComposition.H - nsub * SubstituentLoss.H,
     O |-> HexComposition.O - nsub * SubstituentLoss.O]

\* n unlinked residues; root is residue 1; the Glycan fields are those of __init__
EmptyGraph(n, closed, nsub) ==
    [n |-> n, root |-> 1,
     id |-> [x \in 1..n |-> FreshNodeId(x)],
     comp |-> [x \in 1..n |-> StandardComposition(nsub[x])],
     closed |-> closed, nsub |-> nsub,
     items |-> [x \in 1..n |-> <<>>],
     L |-> <<>>, index |-> <<>>, link_index |-> <<>>, virt |-> {},
     branch_lengths |-> {}]

\* an apply() that forgets the child
LinkApply_parentonly(G, li) ==
    [G EXCEPT !.L[li].att = TRUE,
              !.comp[G.L[li].parent] = CSub(G.comp[G.L[li].parent], G.L[li].ploss)]

\* Link.apply(): subtract the losses from both endpoints and mark attached
LinkApply(G, li) ==
    LET l == G.L[li]
    IN [G EXCEPT !.L[li].att = TRUE,
                 !.comp[l.parent] = CSub(G.comp[l.parent], l.ploss),
                 !.comp[l.child] = CSub(G.comp[l.child], l.closs)]

\* Link.break_link(refund=True): mark detached and give the losses back
LinkBreak(G, li) ==
    LET l == G.L[li]
    IN [G EXCEPT !.L[li].att = FALSE,
                 !.comp[l.parent] = CAdd(G.comp[l.parent], l.ploss),
                 !.comp[l.child] = CAdd(G.comp[l.child], l.closs)]

\* Link.try_break_link / Link.try_apply: the same, skipped when there is nothing to do
LinkTryBreak(G, li) == IF is_attached(G.L[li]) THEN LinkBreak(G, li) ELSE G
LinkTryApply(G, li) == IF is_attached(G.L[li]) THEN G ELSE LinkApply(G, li)

\* Link(parent, child, ...): the new Link enters both endpoints' links maps and is applied
NewLink(G, l) ==
    LET li == Len(G.L) + 1
        G1 == [G EXCEPT !.L = Append(G.L, [l EXCEPT !.att = FALSE])]
        G2 == [G1 EXCEPT !.items[l.parent] = MapPut(G1, l.parent, G1.items[l.parent], li)]
        G3 == [G2 EXCEPT !.items[l.child] = MapPut(G2, l.child, G2.items[l.child], li)]
    IN LinkApply(G3, li)

\* a clone loop that goes through ref.links from the last Link to the first
RECURSIVE CloneLinks_reversed(_, _, _, _, _, _)
CloneLinks_reversed(G, C, ref, its, visited, stack) ==
    IF its = <<>> THEN [C |-> C, stack |-> stack]
    ELSE LET l == G.L[its[Len(its)]]
             terminal == LinkTo(l, ref)
             rest == SubSeq(its, 1, Len(its) - 1)
         IN IF G.id[terminal] \in visited
            THEN CloneLinks_reversed(G, C, ref, rest, visited, stack)
            ELSE CloneLinks_reversed(G,
                            NewLink([C EXCEPT !.id[terminal] = G.id[terminal]],
                                    [l EXCEPT !.label = NoLabel]),
                            ref, rest, visited, Append(stack, terminal))

\* graph_clone: the stack loop; clone x of the new graph stands for ref x
RECURSIVE CloneLinks(_, _, _, _, _, _)
CloneLinks(G, C, ref, its, visited, stack) ==
    IF its = <<>> THEN [C |-> C, stack |-> stack]
    ELSE LET l == G.L[its[1]]
             terminal == LinkTo(l, ref)
         IN IF G.id[terminal] \in visited
            THEN CloneLinks(G, C, ref, Tail(its), visited, stack)
            ELSE CloneLinks(G,
                            NewLink([C EXCEPT !.id[terminal] = G.id[terminal]],
                                    [l EXCEPT !.label = NoLabel]),
                            ref, Tail(its), visited, Append(stack, terminal))

RECURSIVE CloneRun(_, _, _, _)
CloneRun(G, C, stack, visited) ==
    IF stack = <<>> THEN C
    ELSE LET ref == stack[Len(stack)]
             rest == SubSeq(stack, 1, Len(stack) - 1)
         IN IF G.id[ref] \in visited THEN CloneRun(G, C, rest, visited)
            ELSE LET v2 == visited \cup {G.id[ref]}
                     r == CloneLinks(G, C, ref, G.items[ref], v2, rest)
                 IN CloneRun(G, r.C, r.stack, v2)

\* Monosaccharide.clone of every residue: its own data and its substituents, no
\* Link to another residue and so none of their losses; only the clone of
\* the root is given its id before it is linked
RECURSIVE Refunded(_, _)
Refunded(G, i) ==
    IF i > Len(G.L) THEN G
    ELSE Refunded(LinkTryBreak(G, i), i + 1)

Unlinked(G) ==
    [Refunded(G, 1) EXCEPT
        !.id = [x \in DOMAIN G.id |-> IF x = G.root THEN G.id[x] ELSE FreshNodeId(x)],
        !.items = [x \in DOMAIN G.items |-> <<>>],
        !.L = <<>>, !.index = <<>>, !.link_index = <<>>, !.virt = {},
        !.branch_lengths = {}]

graph_clone(G) == CloneRun(G, Unlinked(G), <<G.root>>, {})

\* Glycan.clone(index_method='dfs')
GlycanClone(G) == reindex(graph_clone(G))

\* Glycan.order() / __len__, Glycan.total_composition, the links reached from the root
GlycanOrder(G) == Len(depth_first_traversal(G, G.root))

RECURSIVE SumComp(_, _)
SumComp(G, nodes) ==
    IF nodes = <<>> THEN CZero
    ELSE CAdd(total_composition(G, nodes[1]), SumComp(G, Tail(nodes)))

GlycanComposition(G) == SumComp(G, depth_first_traversal(G, G.root))

(***************************************************************************)
(* The glycans the engine is run on: built residue by residue and Link by  *)
(* Link, then wrapped in Glycan(root), which indexes them.                 *)
(***************************************************************************)
\* par[k] is the residue that residue k (k >= 2) is bound to; it was made earlier
Shapes(n) == {p \in [2..n -> 1..n] : \A k \in 2..n : p[k] < k}

Rank(par, k) == Cardinality({j \in 2..(k - 1) : par[j] = par[k]})

\* the losses a glycosidic Link is created with: add_monosaccharide's defaults, or
\* losses the caller passes (here one H from each side)
LossPairs == {<<DefaultParentLoss, DefaultChildLoss>>, <<Comp(0, 1, 0), Comp(0, 1, 0)>>}

\* the Link that binds residue k: stored at position 1 of k and at the next free
\* position (2, 3, ...) of par[k]; a reversed Link has k as its parent
RecipeLink(par, rev, loss, k, i) ==
    IF k = rev
    THEN MkLink(k, par[k], 1, 2 + Rank(par, k), loss[1], loss[2], FreshLinkId(i))
    ELSE MkLink(par[k], k, 2 + Rank(par, k), 1, loss[1], loss[2], FreshLinkId(i))

RECURSIVE BuildLinks(_, _, _, _, _)
BuildLinks(G, par, rev, loss, ks) ==
    IF ks = <<>> THEN G
    ELSE BuildLinks(NewLink(G, RecipeLink(par, rev, loss, ks[1], Len(G.L) + 1)),
                    par, rev, loss, Tail(ks))

\* Glycan(root) with the default index_method
BuildGlycan(n, par, rev, loss, ks, closed, nsub) ==
    reindex(BuildLinks(EmptyGraph(n, closed, nsub), par, rev, loss, ks))

\* the orders in which the n-1 Links are created: an order of the residues 2..n
BuildOrders(n) ==
    {[i \in 1..(n - 1) |-> i + 1], [i \in 1..(n - 1) |-> n + 1 - i]}

Glycans ==
    UNION {
      {BuildGlycan(n, par, rev, loss, ks,
                   [x \in 1..n |-> x # open], [x \in 1..n |-> IF x = sub THEN 1 ELSE 0]) :
         par \in Shapes(n), rev \in {0} \cup 2..n, loss \in LossPairs,
         ks \in BuildOrders(n), open \in 0..n, sub \in {0, n}}
      : n \in 1..MaxNodes}

(***************************************************************************)
(* Glycan.break_links: what one pass of its loop body yields for a Link    *)
(* (glycosidic kinds), and the nested list(...) calls of deeper cleavages. *)
(***************************************************************************)
\* one ion of a kind code: a letter, with the ring cut (c1, c2) of a cross-ring ion
Ion(k) == [ring |-> <<>>, letter |-> k]
RingIon(c1, c2, k) == [ring |-> <<c1, c2>>, letter |-> k]

Frag(kind, link_ids, included, comp) ==
    [kind |-> kind, link_ids |-> link_ids, included_nodes |-> included, comp |-> comp]

\* the order in which `for k in kind & set("YZ")` and `for k in kind & set("BC")`
\* produce their letters: an unordered set, in either order
SetOrder(letters, K, ord) ==
    LET s == IF ord = 1 THEN letters ELSE <<letters[2], letters[1]>>
    IN SelectSeq(s, LAMBDA k : k \in K)

\* [n.id for n in tree] and tree.mass() for the tree reached from x
IncludeIds(G, x) == [i \in DOMAIN depth_first_traversal(G, x) |->
                        G.id[depth_first_traversal(G, x)[i]]]
TreeComp(G, x) == SumComp(G, depth_first_traversal(G, x))

RECURSIVE Flatten(_)
Flatten(ss) == IF ss = <<>> THEN <<>> ELSE ss[1] \o Flatten(Tail(ss))

\* the last cleavage with the two trees taken for one another
LastCleavageFrags_swapped(G, li, K, ord) ==
    LET l == G.L[li]
    IN [j \in DOMAIN SetOrder(<<"Y", "Z">>, K, ord) |->
          LET k == SetOrder(<<"Y", "Z">>, K, ord)[j]
          IN Frag(<<Ion(k)>>, <<l.id>>, IncludeIds(G, l.child),
                  CSub(TreeComp(G, l.child), fragment_shift(k)))]
       \o
       [j \in DOMAIN SetOrder(<<"C", "B">>, K, ord) |->
          LET k == SetOrder(<<"C", "B">>, K, ord)[j]
          IN Frag(<<Ion(k)>>, <<l.id>>, IncludeIds(G, l.parent),
                  CSub(TreeComp(G, l.parent), fragment_shift(k)))]

\* lines 941-956: the last cleavage
LastCleavageFrags(G, li, K, ord) ==
    LET l == G.L[li]
    IN [j \in DOMAIN SetOrder(<<"Y", "Z">>, K, ord) |->
          LET k == SetOrder(<<"Y", "Z">>, K, ord)[j]
          IN Frag(<<Ion(k)>>, <<l.id>>, IncludeIds(G, l.parent),
                  CSub(TreeComp(G, l.parent), fragment_shift(k)))]
       \o
       [j \in DOMAIN SetOrder(<<"C", "B">>, K, ord) |->
          LET k == SetOrder(<<"C", "B">>, K, ord)[j]
          IN Frag(<<Ion(k)>>, <<l.id>>, IncludeIds(G, l.child),
                  CSub(TreeComp(G, l.child), fragment_shift(k)))]

\* an extension that adds the ion letter but not the id of the Link
Extend_noid(frags, k, id) ==
    [j \in DOMAIN frags |->
        Frag(Append(frags[j].kind, Ion(k)), frags[j].link_ids,
             frags[j].included_nodes, CSub(frags[j].comp, fragment_shift(k)))]

\* lines 886-896: an inner fragment extended by this Link's ion
Extend(frags, k, id) ==
    [j \in DOMAIN frags |->
        Frag(Append(frags[j].kind, Ion(k)), Append(frags[j].link_ids, id),
             frags[j].included_nodes, CSub(frags[j].comp, fragment_shift(k)))]

RECURSIVE BreakLinksList(_, _, _, _, _)
\* the body of the loop of break_links for Link li with m cleavages still to make,
\* on the graph G in which li has just been broken
LinkFrags(G, li, m, K, ord) ==
    LET l == G.L[li]
    IN IF m > 0
       THEN LET parent_frags == BreakLinksList(G, l.parent, m, K, ord)
                child_frags == BreakLinksList(G, l.child, m, K, ord)
            IN Flatten([j \in DOMAIN SetOrder(<<"Y", "Z">>, K, ord) |->
                          Extend(parent_frags, SetOrder(<<"Y", "Z">>, K, ord)[j], l.id)])
               \o
               Flatten([j \in DOMAIN SetOrder(<<"C", "B">>, K, ord) |->
                          Extend(child_frags, SetOrder(<<"C", "B">>, K, ord)[j], l.id)])
       ELSE LastCleavageFrags(G, li, K, ord)

\* list(tree.break_links(n_links, kind, ...)): every attached Link of the tree is
\* broken, its fragments are collected, and it is applied again (the finally)
BreakLinksList(G, root, n_links, K, ord) ==
    LET links == iterlinks(G, root)
    IN Flatten([j \in DOMAIN links |->
                  IF is_attached(G.L[links[j]])
                  THEN LinkFrags(LinkBreak(G, links[j]), links[j], n_links - 1, K, ord)
                  ELSE <<>>])

(***************************************************************************)
(* Cross-ring cleavage of the child residue of a Link (lines 958-998):     *)
(* enumerate_cleavage_pairs, crossring_fragments, the mask (toggle /       *)
(* release) and the A and X fragments' trees.                              *)
(***************************************************************************)
\* Monosaccharide.ring_type is neither RingType.x nor RingType.open
RingIsClosed(G, x) == G.closed[x]

\* enumerate_cleavage_pairs(child): the ring-bond cut-point pairs of a closed ring
enumerate_cleavage_pairs(G, x) ==
    IF RingIsClosed(G, x)
    THEN SubSeq(<<<<0, 2>>, <<1, 3>>, <<2, 4>>, <<3, 5>>, <<1, 5>>>>, 1, MaxPairs)
    ELSE <<>>

\* the side of the cut (c1, c2) that keeps backbone position pos
SideOf(pair, pos) == IF pair[1] < pos /\ pos <= pair[2] THEN "A" ELSE "X"

\* the loss the residue at the far end of l (seen from x) bears for l
FarLoss(l, x) == IF l.parent = x THEN l.closs ELSE l.ploss

\* crossring_fragments(child, c1, c2, copy=False): the A and the X fragment, each
\* bound to the neighbours of child whose positions lie on its side of the cut
crossring_fragments(G, x, pair) ==
    LET mine == {li \in Range(G.items[x]) : is_attached(G.L[li])}
    IN [G EXCEPT
          !.virt = {[side |-> SideOf(pair, PosAt(G.L[li], x)), li |-> li] : li \in mine},
          !.comp = [y \in DOMAIN G.comp |->
                      IF \E li \in mine : LinkTo(G.L[li], x) = y
                      THEN CSub(G.comp[y],
                                FarLoss(G.L[CHOOSE li \in mine : LinkTo(G.L[li], x) = y], x))
                      ELSE G.comp[y]]]

\* a_fragment.release() / x_fragment.release(): the fragment lets go of its neighbours
FragmentRelease(G, x, side) ==
    LET mine == {v.li : v \in {w \in G.virt : w.side = side}}
    IN [G EXCEPT
          !.virt = {w \in G.virt : w.side # side},
          !.comp = [y \in DOMAIN G.comp |->
                      IF \E li \in mine : LinkTo(G.L[li], x) = y
                      THEN CAdd(G.comp[y],
                                FarLoss(G.L[CHOOSE li \in mine : LinkTo(G.L[li], x) = y], x))
                      ELSE G.comp[y]]]

\* monosaccharide.release(x): try_break_link(refund=True) on every Link of x
RECURSIVE release(_, _)
release(G, its) ==
    IF its = <<>> THEN G ELSE release(LinkTryBreak(G, its[1]), Tail(its))

\* the second step of toggle(x): try_apply() on every Link the first step released
RECURSIVE unmask(_, _)
unmask(G, its) ==
    IF its = <<>> THEN G ELSE unmask(LinkTryApply(G, its[1]), Tail(its))

\* the neighbours a fragment is bound to, in the order of x.links
FragmentNeighbours(G, x, side) ==
    LET its == SelectSeq(G.items[x], LAMBDA li : [side |-> side, li |-> li] \in G.virt)
    IN [j \in DOMAIN its |-> LinkTo(G.L[its[j]], x)]

\* [n.id for n in Glycan(fragment)] and its mass; the fragment carries x's id
FragmentInclude(G, x, side) ==
    <<G.id[x]>> \o
    Flatten([j \in DOMAIN FragmentNeighbours(G, x, side) |->
                IncludeIds(G, FragmentNeighbours(G, x, side)[j])])

RECURSIVE SumTrees(_, _)
SumTrees(G, roots) ==
    IF roots = <<>> THEN CZero ELSE CAdd(TreeComp(G, roots[1]), SumTrees(G, Tail(roots)))

CrossRingFrag(G, x, pair, side) ==
    Frag(<<RingIon(pair[1], pair[2], side)>>, <<G.id[x]>>,
         FragmentInclude(G, x, side), SumTrees(G, FragmentNeighbours(G, x, side)))

(***************************************************************************)
(* Glycan.name_fragment (lines 1075-1130) and the Fragment that            *)
(* fragments() builds from a tuple of break_links (lines 812-817).         *)
(***************************************************************************)
\* fragment_direction[ion]
fragment_direction(k) == IF k \in {"A", "B", "C"} THEN -1 ELSE 1

\* zip(ion_types, links_broken); re.findall gives one ion_type per ion of the code
pairings(f) ==
    [j \in 1..(IF Len(f.kind) < Len(f.link_ids) THEN Len(f.kind) ELSE Len(f.link_ids)) |->
        [ion_type |-> f.kind[j], id |-> f.link_ids[j]]]

\* the keys of break_targets (ring = FALSE) or crossring_targets (ring = TRUE),
\* and dict[key]: a later pairing with the same key replaces an earlier one
TargetKeys(f, ring) ==
    {pairings(f)[j].id : j \in {h \in DOMAIN pairings(f) :
                                   (pairings(f)[h].ion_type.ring # <<>>) = ring}}
TargetOf(f, ring, key) ==
    LET js == {h \in DOMAIN pairings(f) :
                  (pairings(f)[h].ion_type.ring # <<>>) = ring /\ pairings(f)[h].id = key}
    IN pairings(f)[CHOOSE h \in js : \A g \in js : g <= h].ion_type

\* iteration over a dict whose keys are small ints: ascending
RECURSIVE Ascending(_)
Ascending(S) ==
    IF S = {} THEN <<>>
    ELSE LET least == CHOOSE v \in S : \A w \in S : v <= w
         IN <<least>> \o Ascending(S \ {least})

\* one component of a name: the ion, the branch letter ("" on the main branch)
\* and the number after it; FailedPart stands for the exception raised instead
NamePart(ion_type, key, distance) ==
    [ion_type |-> ion_type, key |-> IF key = MAIN_BRANCH_SYM THEN "" ELSE key,
     distance |-> distance]
FailedPart(ion_type) == [ion_type |-> ion_type, key |-> "error", distance |-> 0]

\* branch_lengths[label_key] of the Glycan
BranchLength(G, key) == (CHOOSE it \in G.branch_lengths : it[1] = key)[2]

\* the name taken from the label of Link li: the label as it is for X, Y, Z
\* (direction > 0), the distance inverted along the branch for A, B, C
LabelName(G, ion_type, li) ==
    LET label == G.L[li].label
    IN IF label = NoLabel THEN FailedPart(ion_type)
       ELSE IF fragment_direction(ion_type.letter) > 0
       THEN NamePart(ion_type, label.key, label.depth)
       ELSE IF \A it \in G.branch_lengths : it[1] # label.key THEN FailedPart(ion_type)
       ELSE NamePart(ion_type, label.key,
                     BranchLength(G, label.key) - (label.depth - 1))

\* self.link_index[id - 1]: 0 when the index is out of range
LinkIndexAt(G, id) ==
    IF id - 1 \in 0..(Len(G.link_index) - 1) THEN G.link_index[id]
    ELSE IF id - 1 \in (-Len(G.link_index))..(-1) THEN G.link_index[Len(G.link_index) + id]
    ELSE 0

\* lines 1094-1110: the component of a cross-ring cleavage of the residue
\* crossring_id, read from the first Link of link_index whose child it is
CrossringParts(G, f, crossring_id) ==
    LET at == SelectSeq(G.link_index, LAMBDA li : G.id[G.L[li].child] = crossring_id)
    IN IF at = <<>> THEN <<>>
       ELSE <<LabelName(G, TargetOf(f, TRUE, crossring_id), at[1])>>

\* lines 1112-1128: the component of a glycosidic cleavage; X, Y, Z read the Link
\* break_id, A, B, C read the Link fragment.link_ids[0]
GlycosidicPart(G, f, break_id) ==
    LET ion_type == TargetOf(f, FALSE, break_id)
        id == IF fragment_direction(ion_type.letter) > 0 THEN break_id ELSE f.link_ids[1]
    IN IF LinkIndexAt(G, id) = 0 THEN FailedPart(ion_type)
       ELSE LabelName(G, ion_type, LinkIndexAt(G, id))

\* name_fragment(fragment): the components that '-'.join puts together
name_fragment(G, f) ==
    Flatten([j \in DOMAIN Ascending(TargetKeys(f, TRUE)) |->
                CrossringParts(G, f, Ascending(TargetKeys(f, TRUE))[j])])
    \o [j \in DOMAIN Ascending(TargetKeys(f, FALSE)) |->
                GlycosidicPart(G, f, Ascending(TargetKeys(f, FALSE))[j])]

\* lines 812-816: Fragment(kind, link_ids, included_nodes, mass, None), then its
\* name: name_fragment on self, or str(frag) when that raises (named = FALSE)
Fragment(G, f) ==
    LET parts == name_fragment(G, f)
        raised == \E j \in DOMAIN parts : parts[j].key = "error"
    IN [kind |-> f.kind, link_ids |-> f.link_ids, included_nodes |-> f.included_nodes,
        comp |-> f.comp, named |-> ~raised, name |-> IF raised THEN <<>> ELSE parts]

(***************************************************************************)
(* Glycan.fragments as a generator: its frame, and one action per stretch  *)
(* of code between two points at which it can be suspended or fail.        *)
(***************************************************************************)
IdleGen ==
    [pc |-> "idle", inplace |-> FALSE, alias |-> FALSE, called |-> {}, kind |-> {}, K |-> {},
     minc |-> 0, maxc |-> 0, i |-> 0, ord |-> 1, links |-> <<>>, li |-> 0,
     pending |-> <<>>, pair |-> 0, masked |-> <<>>, resume |-> "none"]

\* the kind arguments fragments() is called with
KindChoices == {{"B", "Y"}, {"Y"}, {"B", "C", "Y", "Z"}, {"A", "X"}, {"A", "B", "X", "Y"}}

\* fragments() without the clone: the engine always works on self
GenIsSelf_always(inplace) == TRUE

\* lines 806-808: gen = self, unless not inplace: then gen = self.clone()
GenIsSelf(inplace) == inplace

\* the Glycan the generator works on
EngineGraph == IF gen.alias THEN src ELSE work
PutEngineGraph(G) ==
    IF gen.alias THEN src' = G /\ work' = work ELSE work' = G /\ src' = src

\* set(kind) of a kind code such as "2,4A" or "BY": its ion letters are the only
\* characters that select anything
KindLetters(code) == {code[j].letter : j \in DOMAIN code}

\* the Link the loop body is working on, and its child residue
CurrentLink == gen.links[gen.li]
CurrentChild == EngineGraph.L[CurrentLink].child

\* the pcs that lie inside the try of lines 962-998
CrossPcs == {"cross", "maskA", "relA", "maskX", "relX"}
InCross == gen.pc \in CrossPcs \/ (gen.pc = "yield" /\ gen.resume \in CrossPcs)

\* the finally blocks the control leaves through: lines 996-998, then 1000-1004
Finally(G, li, inCross) ==
    LET G1 == IF inCross /\ is_attached(G.L[li]) THEN LinkBreak(G, li) ELSE G
    IN IF ~is_attached(G1.L[li]) THEN LinkApply(G1, li) ELSE G1

\* fragments(kind, max_cleavages, min_cleavages, inplace) is called: a generator
\* object is made and nothing runs yet
CallFragments ==
    /\ gen.pc = "idle"
    /\ \E kind \in KindChoices, maxc \in 1..MaxCleavages, inplace \in BOOLEAN, ord \in 1..2 :
         \E minc \in 1..maxc :
           /\ (kind \cap {"A", "X"} # {} => maxc = 1)
           /\ gen' = [IdleGen EXCEPT !.pc = "created", !.inplace = inplace, !.called = kind,
                                     !.kind = kind,
                                     !.minc = minc, !.maxc = maxc, !.ord = ord]
    /\ snap' = src
    /\ UNCHANGED <<src, work, out, mono, monoLast, parser, pout, duo, omm, tree, strees, eq>>

\* the first next(): lines 806-811 up to the first call of break_links
Start ==
    /\ gen.pc = "created"
    /\ LET alias == GenIsSelf(gen.inplace)
           G == IF alias THEN src ELSE GlycanClone(src)
       IN /\ work' = IF alias THEN work ELSE G
          /\ gen' = [gen EXCEPT !.pc = "loop", !.alias = alias, !.i = gen.minc,
                                !.K = gen.kind, !.links = iterlinks(G, G.root), !.li = 1]
    /\ UNCHANGED <<src, out, snap, mono, monoLast, parser, pout, duo, omm, tree, strees, eq>>

\* the head of the loop of break_links (line 865): the next Link is taken and
\* broken (lines 867-875), or the pass is over and fragments() starts the next one
NextLink ==
    /\ gen.pc = "loop"
    /\ IF gen.li > Len(gen.links)
       THEN /\ IF gen.i + 1 > gen.maxc
               THEN gen' = [gen EXCEPT !.pc = "done"]
               ELSE gen' = [gen EXCEPT !.i = gen.i + 1, !.K = gen.kind, !.li = 1,
                                       !.links = iterlinks(EngineGraph, EngineGraph.root)]
            /\ UNCHANGED <<src, work>>
       ELSE IF ~is_attached(EngineGraph.L[CurrentLink])
       THEN /\ gen' = [gen EXCEPT !.li = gen.li + 1]
            /\ UNCHANGED <<src, work>>
       ELSE LET G == LinkBreak(EngineGraph, CurrentLink)
            IN /\ PutEngineGraph(G)
               /\ gen' = [gen EXCEPT !.pc = "broken",
                              !.pending = LinkFrags(G, CurrentLink, gen.i - 1, gen.K, gen.ord)]
    /\ UNCHANGED <<out, snap, mono, monoLast, parser, pout, duo, omm, tree, strees, eq>>

\* a yield of lines 890, 896, 949, 956; fragments() passes the Fragment on
\* (line 817), its loop variable `kind` now being the Fragment's kind code
Emit ==
    /\ gen.pc = "broken"
    /\ gen.pending # <<>>
    /\ out' = Append(out, Fragment(src, Head(gen.pending)))
    /\ gen' = [gen EXCEPT !.pc = "yield", !.resume = "broken", !.pending = Tail(gen.pending),
                          !.kind = KindLetters(Head(gen.pending).kind)]
    /\ UNCHANGED <<src, work, snap, mono, monoLast, parser, pout, duo, omm, tree, strees, eq>>

\* the consumer asks for the next Fragment
Resume ==
    /\ gen.pc = "yield"
    /\ gen' = [gen EXCEPT !.pc = gen.resume, !.resume = "none"]
    /\ UNCHANGED <<src, work, out, snap, mono, monoLast, parser, pout, duo, omm, tree, strees, eq>>

\* after the glycosidic yields: the cross-ring part begins (lines 958-961), or the
\* finally applies the Link again (lines 1000-1004)
AfterGlycosidic ==
    /\ gen.pc = "broken"
    /\ gen.pending = <<>>
    /\ IF gen.i - 1 <= 0 /\ gen.K \cap {"A", "X"} # {} /\ RingIsClosed(EngineGraph, CurrentChild)
       THEN /\ PutEngineGraph(LinkApply(EngineGraph, CurrentLink))
            /\ gen' = [gen EXCEPT !.pc = "cross", !.pair = 1]
       ELSE /\ PutEngineGraph(Finally(EngineGraph, CurrentLink, FALSE))
            /\ gen' = [gen EXCEPT !.pc = "loop", !.li = gen.li + 1]
    /\ UNCHANGED <<out, snap, mono, monoLast, parser, pout, duo, omm, tree, strees, eq>>

\* the head of the loop over the cleavage pairs (line 964): the fragments are made
\* and the child is masked (lines 966-970), or the loop is over and both finally
\* blocks run
CrossNext ==
    /\ gen.pc = "cross"
    /\ IF gen.pair > Len(enumerate_cleavage_pairs(EngineGraph, CurrentChild))
       THEN /\ PutEngineGraph(Finally(EngineGraph, CurrentLink, TRUE))
            /\ gen' = [gen EXCEPT !.pc = "loop", !.li = gen.li + 1, !.pair = 0]
       ELSE LET x == CurrentChild
                G1 == crossring_fragments(EngineGraph, x,
                                          enumerate_cleavage_pairs(EngineGraph, x)[gen.pair])
            IN /\ PutEngineGraph(release(G1, G1.items[x]))
               /\ gen' = [gen EXCEPT !.pc = "maskA", !.masked = G1.items[x]]
    /\ UNCHANGED <<out, snap, mono, monoLast, parser, pout, duo, omm, tree, strees, eq>>

\* lines 971-979 and 983-991: the A (the X) fragment is yielded if it is asked for
\* and holds more than the cleaved residue
StageFragment(side, here, next) ==
    /\ gen.pc = here
    /\ LET x == CurrentChild
           pair == enumerate_cleavage_pairs(EngineGraph, x)[gen.pair]
           f == CrossRingFrag(EngineGraph, x, pair, side)
       IN IF side \in gen.K /\ Len(f.included_nodes) > 1
          THEN /\ out' = Append(out, Fragment(src, f))
               /\ gen' = [gen EXCEPT !.pc = "yield", !.resume = next,
                                     !.kind = KindLetters(f.kind)]
          ELSE /\ out' = out
               /\ gen' = [gen EXCEPT !.pc = next]
    /\ UNCHANGED <<src, work, snap, mono, monoLast, parser, pout, duo, omm, tree, strees, eq>>

StageA == StageFragment("A", "maskA", "relA")
StageX == StageFragment("X", "maskX", "relX")

\* line 981: a_fragment.release()
ReleaseA ==
    /\ gen.pc = "relA"
    /\ PutEngineGraph(FragmentRelease(EngineGraph, CurrentChild, "A"))
    /\ gen' = [gen EXCEPT !.pc = "maskX"]
    /\ UNCHANGED <<out, snap, mono, monoLast, parser, pout, duo, omm, tree, strees, eq>>

\* lines 993-995: x_fragment.release(), then the mask is lifted
ReleaseX ==
    /\ gen.pc = "relX"
    /\ PutEngineGraph(unmask(FragmentRelease(EngineGraph, CurrentChild, "X"), gen.masked))
    /\ gen' = [gen EXCEPT !.pc = "cross", !.pair = gen.pair + 1, !.masked = <<>>]
    /\ UNCHANGED <<out, snap, mono, monoLast, parser, pout, duo, omm, tree, strees, eq>>

\* the consumer closes or abandons the generator: GeneratorExit is raised at the
\* yield it is suspended at, and the finally blocks around that yield run
Close ==
    /\ gen.pc \in {"created", "yield"}
    /\ IF gen.pc = "yield"
       THEN PutEngineGraph(Finally(EngineGraph, CurrentLink, InCross))
       ELSE UNCHANGED <<src, work>>
    /\ gen' = [gen EXCEPT !.pc = "closed"]
    /\ UNCHANGED <<out, snap, mono, monoLast, parser, pout, duo, omm, tree, strees, eq>>

\* an error is raised inside the try of the loop body (a mass table without the
\* element, an interrupt, ...): the finally blocks around that point run
Raise ==
    /\ gen.pc \in {"broken"} \cup CrossPcs
    /\ PutEngineGraph(Finally(EngineGraph, CurrentLink, InCross))
    /\ gen' = [gen EXCEPT !.pc = "failed"]
    /\ UNCHANGED <<out, snap, mono, monoLast, parser, pout, duo, omm, tree, strees, eq>>

FragInit ==
    /\ src \in Glycans
    /\ work = "none"
    /\ gen = IdleGen
    /\ out = <<>>
    /\ snap = "none"
    /\ mono = "none" /\ monoLast = "none" /\ parser = "none" /\ pout = "none"
    /\ duo = "none" /\ omm = "none" /\ tree = "none"
    /\ strees = "none" /\ eq = "none"

FragNext ==
    \/ CallFragments \/ Start \/ NextLink \/ Emit \/ Resume \/ AfterGlycosidic
    \/ CrossNext \/ StageA \/ ReleaseA \/ StageX \/ ReleaseX \/ Close \/ Raise

SpecFrag == FragInit /\ [][FragNext]_vars

(***************************************************************************)
(* Properties of the fragmentation engine.                                 *)
(***************************************************************************)
\* the generator is over: exhausted, closed by its consumer, or failed
GenOver == gen.pc \in {"done", "closed", "failed"}

\* the call fragments(kind=("B","Y"), max_cleavages=1) has run to exhaustion
DoneBY == gen.pc = "done" /\ gen.called = {"B", "Y"} /\ gen.maxc = 1

\* the Links reached from the root
GlycanLinkCount(G) == Len(iterlinks(G, G.root))

\* the residues on x's side of Link li: those joined to x by other Links
RECURSIVE SideOfLink(_, _, _)
SideOfLink(G, S, li) ==
    LET T == S \cup {y \in 1..G.n : \E x \in S, j \in DOMAIN G.L \ {li} :
                                       {G.L[j].parent, G.L[j].child} = {x, y}}
    IN IF T = S THEN S ELSE SideOfLink(G, T, li)

SideIds(G, x, li) == {G.id[y] : y \in SideOfLink(G, {x}, li)}

\* the Fragments yielded so far with this kind code and these link_ids
Yielded(k, ids) == {j \in DOMAIN out : out[j].kind = <<Ion(k)>> /\ out[j].link_ids = ids}

\* C1: after fragments() is called with inplace=False and consumed to any
\* extent, the source Glycan has the node count, the link count and the total
\* composition it had before the call, and every one of its Links is attached.
C1_SourceUnchanged ==
    (gen.pc # "idle" /\ ~gen.inplace) =>
        /\ GlycanOrder(src) = GlycanOrder(snap)
        /\ GlycanLinkCount(src) = GlycanLinkCount(snap)
        /\ \A i \in DOMAIN src.L : is_attached(src.L[i])
        /\ GlycanComposition(src) = GlycanComposition(snap)

\* the engine is suspended at a yield holding a broken Link of its own Glycan
C1_Witness ==
    /\ gen.pc = "yield" /\ ~gen.inplace /\ out # <<>>
    /\ \E i \in DOMAIN work.L : ~is_attached(work.L[i])
    /\ GlycanOrder(work) < GlycanOrder(src)

\* C2: when an in-place enumeration is over, however it ended (exhausted, an
\* error raised, closed while suspended at a yield), every Link is in the
\* attached state it had before the call and every residue has the composition
\* it had before the call.
C2_InPlaceRestored ==
    (gen.inplace /\ GenOver) =>
        /\ \A i \in DOMAIN src.L : is_attached(src.L[i]) = is_attached(snap.L[i])
        /\ src.comp = snap.comp

Keys == {-1} \cup 1..SuperclassSize

\* the position 'x': a str, written here as a number that is no position; every
\* comparison with it is made as the interpreter makes it for a str
UnknownX == -2

\* the positions callers pass
PositionArgs == {UnknownX} \cup (-1..(SuperclassSize + 1))

\* the Modification values callers pass
ModificationArgs == {"d", "a", "keto", "aldi"}

\* _monosaccharide_compositions["tri"]
TriComposition == Comp(3, 6, 3)

NewMonosaccharide ==
    [modifications |-> [k \in Keys |-> <<>>], links |-> [k \in Keys |-> 0],
     substituent_links |-> [k \in Keys |-> 0], composition |-> TriComposition]

\* position > self.superclass.value: a str is greater than any number
ExceedsBackbone(position) == IF position = UnknownX THEN TRUE ELSE position > SuperclassSize

\* position < 1 (position < 0): a str is less than no number
Below(position, bound) == IF position = UnknownX THEN FALSE ELSE position < bound

\* what a call gives: the value it returns, or the exception it raises
Returns(value) == [raises |-> "none", value |-> value]
Raises(exception) == [raises |-> exception, value |-> 0]

\* Monosaccharide.is_occupied
is_occupied(m, position) ==
    IF ExceedsBackbone(position) \/ (Below(position, 1) /\ position \notin {UnknownX, -1})
    THEN Raises("IndexError")
    ELSE IF position \in {-1, UnknownX} THEN Returns(0)
    ELSE LET n_occupants == m.links[position] + Len(m.modifications[position])
                              + m.substituent_links[position]
         IN IF \E j \in DOMAIN m.modifications[position] :
                   m.modifications[position][j] = "keto"
            THEN Returns(n_occupants - 1)
            ELSE Returns(n_occupants)

\* modification_compositions[modification](position)
modification_compositions(modification, position) ==
    CASE modification = "d" -> Comp(0, 0, -1)
      [] modification = "a" -> IF position = 1 THEN Comp(0, 0, 1) ELSE Comp(0, -2, 1)
      [] modification = "keto" -> Comp(0, -2, 0)

\* list.pop(list.index(value))
RemoveFirst(seq, value) ==
    LET j == CHOOSE j \in DOMAIN seq :
                 seq[j] = value /\ \A h \in 1..(j - 1) : seq[h] # value
    IN SubSeq(seq, 1, j - 1) \o SubSeq(seq, j + 1, Len(seq))

\* a setter that stores the new reducing end without looking for an old one
SetReducingEnd_keeping(m) ==
    [m EXCEPT !.modifications[1] = Append(m.modifications[1], "ReducedEnd")]

\* the reducing_end setter with a ReducedEnd: the reducing end found in
\* modifications is popped from position 1, the new one is stored at position 1
SetReducingEnd(m) ==
    LET has == \E k \in Keys : \E j \in DOMAIN m.modifications[k] :
                   m.modifications[k][j] = "ReducedEnd"
        m1 == IF has
              THEN [m EXCEPT !.modifications[1] = RemoveFirst(m.modifications[1], "ReducedEnd")]
              ELSE m
    IN [m1 EXCEPT !.modifications[1] = Append(m1.modifications[1], "ReducedEnd")]

Stored(m) ==
    LET RECURSIVE Sum(_)
        Sum(S) == IF S = {} THEN 0
                  ELSE LET k == CHOOSE k \in S : TRUE
                       IN Len(m.modifications[k]) + Sum(S \ {k})
    IN Sum(Keys)

Bound(map) ==
    LET RECURSIVE Sum(_)
        Sum(S) == IF S = {} THEN 0
                  ELSE LET k == CHOOSE k \in S : TRUE IN map[k] + Sum(S \ {k})
    IN Sum(Keys)

Call(op, what, position, max_occupancy, result) ==
    [op |-> op, what |-> what, position |-> position, max_occupancy |-> max_occupancy,
     result |-> result, before |-> mono]

\* Monosaccharide.add_modification(modification, position, max_occupancy)
add_modification ==
    \E modification \in ModificationArgs, position \in PositionArgs, max_occupancy \in 0..1 :
       LET occ == is_occupied(mono, position)
       IN /\ Stored(mono) < MaxStored
          /\ IF occ.raises = "IndexError"
             THEN /\ mono' = mono
                  /\ monoLast' = Call("add_modification", modification, position,
                                      max_occupancy, "IndexError")
             ELSE IF occ.value > max_occupancy
             THEN /\ mono' = mono
                  /\ monoLast' = Call("add_modification", modification, position,
                                      max_occupancy, "ValueError")
             ELSE /\ mono' =
                       IF modification = "aldi" THEN SetReducingEnd(mono)
                       ELSE [mono EXCEPT
                               !.composition = CAdd(@, modification_compositions(modification,
                                                                                 position)),
                               !.modifications[position] = Append(@, modification)]
                  /\ monoLast' = Call("add_modification", modification, position,
                                      max_occupancy, "ok")
          /\ UNCHANGED <<src, work, gen, out, snap, parser, pout, duo, omm, tree, strees, eq>>

\* Monosaccharide.drop_modification(position, modification)
drop_modification ==
    \E modification \in ModificationArgs, position \in PositionArgs :
       /\ IF ExceedsBackbone(position) \/ (Below(position, 0) /\ position \notin {UnknownX, -1})
          THEN /\ mono' = mono
               /\ monoLast' = Call("drop_modification", modification, position, 0, "IndexError")
          ELSE IF position \notin Keys
                  \/ ~\E j \in DOMAIN mono.modifications[position] :
                         mono.modifications[position][j] = modification
          THEN /\ mono' = mono
               /\ monoLast' = Call("drop_modification", modification, position, 0, "ValueError")
          ELSE /\ mono' = [mono EXCEPT
                             !.modifications[position] = RemoveFirst(@, modification),
                             !.composition = CSub(@, modification_compositions(modification,
                                                                               position))]
               /\ monoLast' = Call("drop_modification", modification, position, 0, "ok")
       /\ UNCHANGED <<src, work, gen, out, snap, parser, pout, duo, omm, tree, strees, eq>>

\* Monosaccharide.add_substituent(substituent, position, max_occupancy)
add_substituent ==
    \E position \in PositionArgs, max_occupancy \in 0..1 :
       LET occ == is_occupied(mono, position)
       IN /\ Bound(mono.substituent_links) < MaxBound
          /\ IF occ.raises = "IndexError"
             THEN /\ mono' = mono
                  /\ monoLast' = Call("add_substituent", "methyl", position, max_occupancy,
                                      "IndexError")
             ELSE IF occ.value > max_occupancy
             THEN /\ mono' = mono
                  /\ monoLast' = Call("add_substituent", "methyl", position, max_occupancy,
                                      "ValueError")
             ELSE /\ mono' = [mono EXCEPT !.substituent_links[position] = @ + 1,
                                          !.composition = CSub(@, SubstituentLoss)]
                  /\ monoLast' = Call("add_substituent", "methyl", position, max_occupancy, "ok")
          /\ UNCHANGED <<src, work, gen, out, snap, parser, pout, duo, omm, tree, strees, eq>>

\* Monosaccharide.add_monosaccharide(monosaccharide, position, max_occupancy) with
\* a new residue as the child, bound at its unknown position
add_monosaccharide ==
    \E position \in PositionArgs, max_occupancy \in 0..1 :
       LET occ == is_occupied(mono, position)
       IN /\ Bound(mono.links) < MaxBound
          /\ IF occ.raises = "IndexError"
             THEN /\ mono' = mono
                  /\ monoLast' = Call("add_monosaccharide", "tri", position, max_occupancy,
                                      "IndexError")
             ELSE IF occ.value > max_occupancy
             THEN /\ mono' = mono
                  /\ monoLast' = Call("add_monosaccharide", "tri", position, max_occupancy,
                                      "ValueError")
             ELSE /\ mono' = [mono EXCEPT !.links[position] = @ + 1,
                                          !.composition = CSub(@, DefaultParentLoss)]
                  /\ monoLast' = Call("add_monosaccharide", "tri", position, max_occupancy, "ok")
          /\ UNCHANGED <<src, work, gen, out, snap, parser, pout, duo, omm, tree, strees, eq>>

MonoInit ==
    /\ mono = NewMonosaccharide
    /\ monoLast = Call("new", "tri", -1, 0, "ok")
    /\ src = "none" /\ work = "none" /\ gen = "none" /\ out = "none" /\ snap = "none"
    /\ parser = "none" /\ pout = "none"
    /\ duo = "none" /\ omm = "none" /\ tree = "none"
    /\ strees = "none" /\ eq = "none"

MonoNext == add_modification \/ drop_modification \/ add_substituent \/ add_monosaccharide

SpecMono == MonoInit /\ [][MonoNext]_vars

(***************************************************************************)
(* Properties of Monosaccharide.add_modification and is_occupied.          *)
(***************************************************************************)
\* how many times value is stored in seq
Count(seq, value) == Len(SelectSeq(seq, LAMBDA v : v = value))

\* the last call was add_modification
LastAdd == monoLast.op = "add_modification"

\* what is_occupied(position) gave when the last call began
OccupiedBefore == is_occupied(monoLast.before, monoLast.position)

\* what add_modification stores for a Modification
StoredAs(modification) == IF modification = "aldi" THEN "ReducedEnd" ELSE modification

\* C9 as stated: add_modification fails with the occupancy error exactly when
\* is_occupied(position) > max_occupancy, then changing nothing; otherwise the
\* modification is recorded at that position; a second modification at a
\* position that holds one fails with max_occupancy=0 and succeeds with 1.
C9_RecordedAtPosition ==
    LastAdd =>
        LET b == monoLast.before
            pos == monoLast.position
        IN /\ (monoLast.result = "ValueError") <=>
                 (OccupiedBefore.raises = "none"
                    /\ OccupiedBefore.value > monoLast.max_occupancy)
           /\ (monoLast.result = "ValueError" => mono = b)
           /\ (monoLast.result = "ok" =>
                 Count(mono.modifications[pos], StoredAs(monoLast.what)) >= 1)
           /\ (pos \in 1..SuperclassSize /\ Len(b.modifications[pos]) >= 1
                 /\ monoLast.max_occupancy = 0 => monoLast.result = "ValueError")
           /\ (pos \in 1..SuperclassSize /\ Len(b.modifications[pos]) = 1
                 /\ b.links[pos] = 0 /\ b.substituent_links[pos] = 0
                 /\ monoLast.max_occupancy = 1 => monoLast.result = "ok")

\* C9, amended: add_modification fails with the occupancy error exactly when
\* is_occupied(position) > max_occupancy, and a failed call changes nothing.
\* Otherwise an aldi leaves the composition alone and puts one ReducedEnd at
\* position 1, whatever position was passed, in the place of the reducing end
\* that was there; any other modification is appended at the position passed and
\* its composition delta is applied.  A modification at a position whose
\* is_occupied is 1 or more fails with max_occupancy=0, and succeeds with
\* max_occupancy=1 when is_occupied is 1.
C9_RecordedOrReducingEnd ==
    LastAdd =>
        LET b == monoLast.before
            pos == monoLast.position
            what == monoLast.what
        IN /\ (monoLast.result = "ValueError") <=>
                 (OccupiedBefore.raises = "none"
                    /\ OccupiedBefore.value > monoLast.max_occupancy)
           /\ (monoLast.result # "ok" => mono = b)
           /\ (monoLast.result = "ok" /\ what # "aldi" =>
                 /\ mono.modifications = [b.modifications EXCEPT ![pos] = Append(@, what)]
                 /\ mono.composition = CAdd(b.composition,
                                            modification_compositions(what, pos)))
           /\ (monoLast.result = "ok" /\ what = "aldi" =>
                 /\ mono.composition = b.composition
                 /\ Count(mono.modifications[1], "ReducedEnd") = 1
                 /\ \A k \in Keys \ {1} : mono.modifications[k] = b.modifications[k]
                 /\ \A v \in {"d", "a", "keto"} :
                      Count(mono.modifications[1], v) = Count(b.modifications[1], v))
           /\ (OccupiedBefore.raises = "none" /\ OccupiedBefore.value >= 1
                 /\ monoLast.max_occupancy = 0 => monoLast.result = "ValueError")
           /\ (OccupiedBefore.raises = "none" /\ OccupiedBefore.value = 1
                 /\ monoLast.max_occupancy = 1 => monoLast.result = "ok")

\* a second aldi went in with max_occupancy=1 where a reducing end was held
C9_Witness ==
    /\ LastAdd /\ monoLast.result = "ok" /\ monoLast.what = "aldi"
    /\ monoLast.position = 1 /\ monoLast.max_occupancy = 1
    /\ Count(monoLast.before.modifications[1], "ReducedEnd") = 1

\* C10: is_occupied(p) of a backbone position p is the number of modifications
\* at p that are not keto, plus the Links at p, plus the substituent Links at p;
\* is_occupied of the unknown position, written 'x' or -1, is 0.
C10_KetoNeverCounts ==
    /\ \A p \in 1..SuperclassSize :
         is_occupied(mono, p) =
            Returns(Len(mono.modifications[p]) - Count(mono.modifications[p], "keto")
                      + mono.links[p] + mono.substituent_links[p])
    /\ is_occupied(mono, -1) = Returns(0)
    /\ is_occupied(mono, UnknownX) = Returns(0)

(***************************************************************************)
(* The GlycoCT parser (io/glycoct.py).  A token is the sequence of the     *)
(* pieces of text it is made of: a digit, a letter, a mark, or a whole     *)
(* field the shape rules never look into.                                  *)
(***************************************************************************)
START == "!START"
RES == "RES"
LIN == "LIN"
REP == "REP"
ALT == "ALT"
UND == "UND"

Digits == {"1", "2", "3", "4", "5", "6", "7", "8", "9"}

\* int(text) and str(number) of one digit
int(d) ==
    CASE d = "1" -> 1 [] d = "2" -> 2 [] d = "3" -> 3 [] d = "4" -> 4 [] d = "5" -> 5
      [] d = "6" -> 6 [] d = "7" -> 7 [] d = "8" -> 8 [] d = "9" -> 9
str(n) == CHOOSE d \in Digits : int(d) = n

\* the tokens a stream holds
ResidueLine(ix, body) == <<ix, "b", ":", body>>
SubstituentLine(ix, name) == <<ix, "s", ":", name>>
LinkLine(id, parent, patom, ppos, cpos, child, catom) ==
    <<id, ":", parent, patom, "(", ppos, "+", cpos, ")", child, catom>>

TokenArgs ==
    {<<RES>>, <<LIN>>, <<REP>>, <<ALT>>, <<UND>>,
     ResidueLine("1", "x-HEX-1:5"), ResidueLine("2", "a-dglc-HEX-1:5"),
     <<"1", "b">>,
     SubstituentLine("3", "methyl"),
     <<"2", "r", ":", "r1">>,
     LinkLine("1", "1", "o", "4", "1", "2", "d"),
     LinkLine("2", "1", "o", "6", "1", "2", "d"),
     LinkLine("3", "1", "d", "2", "1", "3", "n"),
     <<"1", ":", "1", "?">>,
     <<"junk">>}

\* how many digits the token begins with: the match of ^(\d+)
RECURSIVE LeadingDigits(_)
LeadingDigits(token) ==
    IF token = <<>> \/ Head(token) \notin Digits THEN 0 ELSE 1 + LeadingDigits(Tail(token))

After(token, k) == SubSeq(token, k + 1, Len(token))

\* re.search(r"^(\d+)b", line), r"^(\d+)s:", r"^(\d+)r:", r"^(\d+):(\d+)"
IsResidueLine(token) ==
    LET k == LeadingDigits(token)
    IN k > 0 /\ Len(token) > k /\ token[k + 1] = "b"
IsSubstituentLine(token) ==
    LET k == LeadingDigits(token)
    IN k > 0 /\ Len(token) > k + 1 /\ token[k + 1] = "s" /\ token[k + 2] = ":"
IsRepeatLine(token) ==
    LET k == LeadingDigits(token)
    IN k > 0 /\ Len(token) > k + 1 /\ token[k + 1] = "r" /\ token[k + 2] = ":"
IsLinkLine(token) ==
    LET k == LeadingDigits(token)
    IN k > 0 /\ Len(token) > k + 1 /\ token[k + 1] = ":" /\ token[k + 2] \in Digits

\* res_pattern and what handle_residue_line makes of its groups; a residue
\* without -config stem pairs has configuration ('x',) and stem ('x',)
Fields(name, anomer, configuration, stem, superclass, ring_start, ring_end) ==
    [name |-> name, anomer |-> anomer, configuration |-> configuration, stem |-> stem,
     superclass |-> superclass, ring_start |-> ring_start, ring_end |-> ring_end]

ResidueBodies == {"x-HEX-1:5", "x-xx-HEX-1:5", "a-dglc-HEX-1:5"}

ResidueFields(body) ==
    CASE body = "x-HEX-1:5" -> Fields("", "x", <<"x">>, <<"x">>, "HEX", "1", "5")
      [] body = "x-xx-HEX-1:5" -> Fields("", "x", <<"x">>, <<"x">>, "HEX", "1", "5")
      [] body = "a-dglc-HEX-1:5" -> Fields("", "a", <<"d">>, <<"glc">>, "HEX", "1", "5")

\* Substituent(name), and Monosaccharide() made with no argument
SubstituentFields(name) == Fields(name, "", <<>>, <<>>, "", "", "")
DefaultFields == Fields("", "None", <<"None">>, <<"None">>, "None", "None", "None")

\* the residue_template of Monosaccharide.to_glycoct, after "{ix}b:"
ResidueBody(fields) ==
    IF fields.anomer = "x" THEN "x-xx-HEX-1:5" ELSE "a-dglc-HEX-1:5"

\* link_replacement_composition_map and the letter a Link is written with
link_replacement_composition_map(atom) ==
    CASE atom = "o" -> Comp(0, 1, 0)
      [] atom = "d" -> Comp(0, 1, 1)
      [] atom = "n" -> Comp(0, 1, 0)
      [] atom = "h" -> Comp(0, 1, 0)
ReplacementLetter(loss) == IF loss = Comp(0, 1, 1) THEN "d" ELSE "o"

\* the exception a step ends in
Error(type, message) == [type |-> type, message |-> message]
NoError == Error("none", <<>>)

\* the two exception classes of the module
GlycoCTError_blank(message) == Error("GlycoCTError", <<>>)
GlycoCTError(message) == Error("GlycoCTError", message)

GlycoCTSectionUnsupported_generic(section) == Error("GlycoCTError", <<section>>)
GlycoCTSectionUnsupported(section) == Error("GlycoCTSectionUnsupported", <<section>>)

\* GlycoCT.__init__: an empty graph, no root, state START
NoGraph ==
    [n |-> 0, root |-> 0, id |-> <<>>, comp |-> <<>>, closed |-> <<>>, nsub |-> <<>>,
     items |-> <<>>, L |-> <<>>, index |-> <<>>, link_index |-> <<>>, virt |-> {},
     kind |-> <<>>, fields |-> <<>>, substituent_links |-> <<>>, branch_lengths |-> {}]

NoEntries == [d \in Digits |-> 0]

NewParser ==
    [state |-> START, graph |-> NoEntries, root |-> 0, G |-> NoGraph,
     error |-> NoError, over |-> FALSE, consumed |-> 0, last |-> <<>>, yielded |-> FALSE]

\* a node enters the parser's objects: a Monosaccharide or a Substituent
NewNode(G, kind, fields, id, composition) ==
    [G EXCEPT !.n = @ + 1, !.id = Append(@, id), !.comp = Append(@, composition),
              !.closed = Append(@, TRUE), !.nsub = Append(@, 0), !.items = Append(@, <<>>),
              !.kind = Append(@, kind), !.fields = Append(@, fields),
              !.substituent_links = Append(@, <<>>)]

\* Glycan(root): the residues reached from root are indexed; no root gives a
\* Glycan of one new Monosaccharide()
Glycan(G, root) ==
    IF root = 0
    THEN LET G1 == NewNode(NoGraph, "b", DefaultFields, FreshNodeId(1), CZero)
         IN reindex([G1 EXCEPT !.root = 1])
    ELSE reindex([G EXCEPT !.root = root])

\* handle_residue_line: the Monosaccharide is stored under its index, takes
\* the index as its id, and is the root if there is none
handle_residue_line(P, token) ==
    LET k == LeadingDigits(token)
        residue_str == After(token, k + 1)
    IN IF k # 1 \/ Len(residue_str) # 2 \/ residue_str[2] \notin ResidueBodies
       THEN [P EXCEPT !.error = Error("AttributeError", <<>>), !.over = TRUE]
       ELSE LET G == NewNode(P.G, "b", ResidueFields(residue_str[2]), int(token[1]),
                             HexComposition)
            IN [P EXCEPT !.G = G, !.graph[token[1]] = G.n,
                         !.root = IF P.root = 0 THEN G.n ELSE P.root]

\* handle_residue_substituent: the Substituent is stored under its index
handle_residue_substituent(P, token) ==
    LET G == NewNode(P.G, "s", SubstituentFields(token[Len(token)]),
                     FreshNodeId(P.G.n + 1), MethylComposition)
    IN [P EXCEPT !.G = G, !.graph[token[1]] = G.n]

\* the line is one link_pattern finds a link in
MatchesLinkPattern(token) ==
    /\ Len(token) = 11
    /\ token[1] \in Digits /\ token[2] = ":" /\ token[3] \in Digits
    /\ token[4] \in {"o", "d", "h", "n"} /\ token[5] = "("
    /\ token[6] \in Digits /\ token[7] = "+" /\ token[8] \in Digits /\ token[9] = ")"
    /\ token[10] \in Digits /\ token[11] \in {"o", "d", "h", "n"}

\* Link(parent, child, ...) where child is a Substituent: the Link enters the
\* parent's substituent_links and is applied
NewSubstituentLink(G, l) ==
    [G EXCEPT !.substituent_links[l.parent] =
                  LET at == {j \in DOMAIN @ : @[j].ppos = l.ppos}
                      k == IF at = {} THEN Len(@) ELSE CHOOSE j \in at : \A h \in at : h <= j
                  IN SubSeq(@, 1, k) \o <<l>> \o SubSeq(@, k + 1, Len(@)),
              !.nsub[l.parent] = @ + 1,
              !.comp[l.parent] = CSub(@, l.ploss),
              !.comp[l.child] = CSub(@, l.closs)]

\* handle_linkage, with parse_link
handle_linkage(P, token) ==
    IF ~MatchesLinkPattern(token)
    THEN [P EXCEPT !.error = GlycoCTError(<<"Could not interpret link">> \o token),
                   !.over = TRUE]
    ELSE IF P.graph[token[3]] = 0 \/ P.graph[token[10]] = 0
    THEN [P EXCEPT !.error = Error("KeyError", <<>>), !.over = TRUE]
    ELSE LET l == MkLink(P.graph[token[3]], P.graph[token[10]], int(token[6]), int(token[8]),
                         link_replacement_composition_map(token[4]),
                         link_replacement_composition_map(token[11]), int(token[1]))
         IN IF P.G.kind[l.child] = "s"
            THEN [P EXCEPT !.G = NewSubstituentLink(P.G, l)]
            ELSE [P EXCEPT !.G = NewLink(P.G, l)]

\* GlycoCT._reset
Reset(P) == [P EXCEPT !.graph = NoEntries, !.root = 0, !.G = NoGraph]

\* one turn of the loop of GlycoCT.parse on the next token of the stream: what
\* the parser is afterwards, and the Glycan it yields on the way, if any
ParseToken(P0, token) ==
    LET P == [P0 EXCEPT !.consumed = @ + 1, !.last = token, !.yielded = FALSE]
        Same == [p |-> P, out |-> <<>>]
        Fail(e) == [p |-> [P EXCEPT !.error = e, !.over = TRUE], out |-> <<>>]
    IN IF token = <<RES>>
       THEN IF P.root # 0
            THEN [p |-> [Reset(P) EXCEPT !.state = RES, !.yielded = TRUE],
                  out |-> <<Glycan(P.G, P.root)>>]
            ELSE [p |-> [P EXCEPT !.state = RES], out |-> <<>>]
       ELSE IF token = <<LIN>>
       THEN IF P.state # RES
            THEN Fail(GlycoCTError(<<LIN, " before ", RES>>))
            ELSE [p |-> [P EXCEPT !.state = LIN], out |-> <<>>]
       ELSE IF token = <<REP>> THEN Fail(GlycoCTSectionUnsupported(REP))
       ELSE IF token = <<ALT>> THEN Fail(GlycoCTSectionUnsupported(ALT))
       ELSE IF token = <<UND>> THEN Fail(GlycoCTSectionUnsupported(UND))
       ELSE IF IsResidueLine(token) /\ P.state = RES
       THEN [p |-> handle_residue_line(P, token), out |-> <<>>]
       ELSE IF IsSubstituentLine(token) /\ P.state = RES
       THEN [p |-> handle_residue_substituent(P, token), out |-> <<>>]
       ELSE IF IsRepeatLine(token) /\ P.state = RES
       THEN Fail(GlycoCTSectionUnsupported(REP))
       ELSE IF IsLinkLine(token) /\ P.state = LIN
       THEN [p |-> handle_linkage(P, token), out |-> <<>>]
       ELSE Fail(GlycoCTError(<<"Unknown format error: ">> \o token))

\* the stream is at its end: the last lines of parse
ParseEnd(P) ==
    [p |-> [P EXCEPT !.over = TRUE, !.yielded = TRUE, !.last = <<>>],
     out |-> <<Glycan(P.G, P.root)>>]

\* list(GlycoCT(stream)) for a whole stream: the Glycans yielded and how it ended
RECURSIVE ParseRun(_, _, _)
ParseRun(P, tokens, acc) ==
    IF P.over THEN [p |-> P, out |-> acc]
    ELSE IF tokens = <<>>
    THEN [p |-> ParseEnd(P).p, out |-> acc \o ParseEnd(P).out]
    ELSE LET r == ParseToken(P, Head(tokens))
         IN ParseRun(r.p, Tail(tokens), acc \o r.out)

loads(tokens) == ParseRun(NewParser, tokens, <<>>)

\* the parser reads the next token of its stream
Feed ==
    /\ ~parser.over
    /\ parser.consumed < MaxTokens
    /\ \E token \in TokenArgs :
         LET r == ParseToken(parser, token)
         IN /\ parser' = r.p
            /\ pout' = pout \o r.out
    /\ UNCHANGED <<src, work, gen, out, snap, mono, monoLast, duo, omm, tree, strees, eq>>

\* the parser finds its stream at its end
EndOfStream ==
    /\ ~parser.over
    /\ parser' = ParseEnd(parser).p
    /\ pout' = pout \o ParseEnd(parser).out
    /\ UNCHANGED <<src, work, gen, out, snap, mono, monoLast, duo, omm, tree, strees, eq>>

ParserInit ==
    /\ parser = NewParser
    /\ pout = <<>>
    /\ src = "none" /\ work = "none" /\ gen = "none" /\ out = "none" /\ snap = "none"
    /\ mono = "none" /\ monoLast = "none"
    /\ duo = "none" /\ omm = "none" /\ tree = "none"
    /\ strees = "none" /\ eq = "none"

ParserNext == Feed \/ EndOfStream

SpecParser == ParserInit /\ [][ParserNext]_vars

(***************************************************************************)
(* Glycan.to_glycoct and Monosaccharide.to_glycoct: the text, as tokens.   *)
(***************************************************************************)
\* a dict as the sequence of its assignments: the last one for a key is its value
Lookup(pairs, key) ==
    LET j == CHOOSE j \in DOMAIN pairs :
                 pairs[j].key = key /\ \A h \in (j + 1)..Len(pairs) : pairs[h].key # key
    IN pairs[j].value

\* Link.to_glycoct(ix, parent_index, child_index)
LinkToGlycoct(l, ix, parent_index, child_index) ==
    LinkLine(str(ix), str(parent_index), ReplacementLetter(l.ploss), str(l.ppos),
             str(l.cpos), str(child_index), ReplacementLetter(l.closs))

\* Monosaccharide.to_glycoct(res_index, lin_index, complete=False): the residue
\* line, a line for each substituent, a line for each substituent Link
RECURSIVE SubstituentLines(_, _, _, _, _)
SubstituentLines(G, links, index, resc, linc) ==
    IF links = <<>> THEN [res |-> <<>>, lin |-> <<>>, resc |-> resc, linc |-> linc]
    ELSE LET sub_index == resc
             rest == SubstituentLines(G, Tail(links), index, resc + 1, linc + 1)
         IN [res |-> <<SubstituentLine(str(sub_index), G.fields[links[1].child].name)>>
                       \o rest.res,
             lin |-> <<LinkToGlycoct(links[1], linc, index, sub_index)>> \o rest.lin,
             resc |-> rest.resc, linc |-> rest.linc]

MonosaccharideToGlycoct(G, x, resc, linc) ==
    LET index == resc
        subs == SubstituentLines(G, G.substituent_links[x], index, resc + 1, linc)
    IN [res |-> <<ResidueLine(str(index), ResidueBody(G.fields[x]))>> \o subs.res,
        lin |-> subs.lin, index |-> index, resc |-> subs.resc, linc |-> subs.linc]

\* the Links of x in which x is the parent, in the order of x.links.items()
ParentLinks(G, x) == SelectSeq(G.items[x], LAMBDA i : G.L[i].child # x)

\* the first loop of Glycan.to_glycoct (lines 636-649)
RECURSIVE ResSection(_, _, _)
ResSection(G, nodes, S) ==
    IF nodes = <<>> THEN S
    ELSE LET x == nodes[1]
             m == MonosaccharideToGlycoct(G, x, S.resc, S.linc)
             mine == ParentLinks(G, x)
             deps == [j \in DOMAIN mine |->
                        [key |-> <<G.id[G.L[mine[j]].child], G.id[x]>>,
                         value |-> [ix |-> m.linc + j - 1, link |-> mine[j]]]]
         IN ResSection(G, Tail(nodes),
                       [res |-> S.res \o m.res,
                        resc |-> m.resc, linc |-> m.linc + Len(mine),
                        lin_accumulator |-> Append(S.lin_accumulator,
                                                   [index |-> m.index, lin |-> m.lin]),
                        residue_to_index |-> Append(S.residue_to_index,
                                                    [key |-> G.id[x], value |-> m.index]),
                        index_to_residue |-> Append(S.index_to_residue,
                                                    [key |-> m.index, value |-> x]),
                        dependencies |-> S.dependencies \o deps])

\* the second loop of Glycan.to_glycoct (lines 651-662)
RECURSIVE LinSection(_, _, _)
LinSection(G, S, acc) ==
    IF acc = <<>> THEN <<>>
    ELSE LET res_ix == acc[1].index
             residue == Lookup(S.index_to_residue, res_ix)
             mine == ParentLinks(G, residue)
         IN acc[1].lin
            \o [j \in DOMAIN mine |->
                  LET child_res == G.L[mine[j]].child
                      d == Lookup(S.dependencies, <<G.id[child_res], G.id[residue]>>)
                  IN LinkToGlycoct(G.L[d.link], d.ix, res_ix,
                                   Lookup(S.residue_to_index, G.id[child_res]))]
            \o LinSection(G, S, Tail(acc))

to_glycoct(G) ==
    LET S == ResSection(G, depth_first_traversal(G, G.root),
                        [res |-> <<>>, resc |-> 1, linc |-> 1, lin_accumulator |-> <<>>,
                         residue_to_index |-> <<>>, index_to_residue |-> <<>>,
                         dependencies |-> <<>>])
    IN <<<<RES>>>> \o S.res \o <<<<LIN>>>> \o LinSection(G, S, S.lin_accumulator)

(***************************************************************************)
(* Monosaccharide.topological_equality.                                    *)
(***************************************************************************)
\* _flat_equality(other, lengths=True)
FlatEquality(A, x, B, y) ==
    /\ A.fields[x] = B.fields[y]
    /\ Len(A.items[x]) = Len(B.items[y])
    /\ Len(A.substituent_links[x]) = Len(B.substituent_links[y])
    /\ total_composition(A, x) = total_composition(B, y)

\* _match_substituents: each substituent of self takes the first equal
\* substituent of other whose position is not taken
RECURSIVE MatchSubstituents(_, _, _, _, _)
MatchSubstituents(A, as, B, bs, taken) ==
    IF as = <<>> THEN Cardinality(taken) = Len(bs)
    ELSE LET fits == {j \in DOMAIN bs :
                        /\ bs[j].ppos \notin taken
                        /\ B.fields[bs[j].child] = A.fields[as[1].child]}
         IN IF fits = {} THEN FALSE
            ELSE LET j == CHOOSE j \in fits : \A h \in fits : j <= h
                 IN MatchSubstituents(A, Tail(as), B, bs, taken \cup {bs[j].ppos})

RECURSIVE topological_equality(_, _, _, _)
RECURSIVE MatchChildren(_, _, _, _, _, _, _)

\* the loop over a_children: each child of self takes the first child of other
\* that is topologically equal and whose (position, id) is not taken
MatchChildren(A, x, as, B, y, bs, taken) ==
    IF as = <<>> THEN Cardinality(taken) = Len(bs)
    ELSE LET a_child == A.L[as[1]].child
             fits == {j \in DOMAIN bs :
                        /\ <<B.L[bs[j]].ppos, B.id[B.L[bs[j]].child]>> \notin taken
                        /\ topological_equality(A, a_child, B, B.L[bs[j]].child)}
         IN IF fits = {} THEN FALSE
            ELSE LET j == CHOOSE j \in fits : \A h \in fits : j <= h
                 IN MatchChildren(A, x, Tail(as), B, y, bs,
                                  taken \cup {<<B.L[bs[j]].ppos, B.id[B.L[bs[j]].child]>>})

topological_equality(A, x, B, y) ==
    /\ FlatEquality(A, x, B, y)
    /\ MatchSubstituents(A, A.substituent_links[x], B, B.substituent_links[y], {})
    /\ MatchChildren(A, x, ChildLinks(A, x), B, y, ChildLinks(B, y), {})

(***************************************************************************)
(* Properties of the parser and of the serializer.                         *)
(***************************************************************************)
\* token occurs in message as one piece
Contains(message, token) ==
    \E k \in 0..(Len(message) - Len(token)) :
        SubSeq(message, k + 1, k + Len(token)) = token

\* the Glycan was made from a structure with at least one residue line
FromResidues(g) == g.fields[g.root] # DefaultFields

\* the last step consumed a token that names an unsupported section
SectionToken ==
    \/ parser.last \in {<<REP>>, <<ALT>>, <<UND>>}
    \/ parser.last = <<"2", "r", ":", "r1">> /\ parser.state = RES

\* C5: every Glycan g the parser yields from a structure with residues is
\* written by to_glycoct as text that parses without error to exactly one
\* Glycan g2, and g.topological_equality(g2) is true.
C5_RoundTrip ==
    \A j \in DOMAIN pout :
        FromResidues(pout[j]) =>
            LET g == pout[j]
                r == loads(to_glycoct(g))
            IN /\ r.p.error = NoError
               /\ Len(r.out) = 1
               /\ topological_equality(g, g.root, r.out[1], r.out[1].root)

\* C6: once the parser has consumed REP, ALT or UND (in any state), or a
\* repeat residue line <n>r: while in state RES, parsing is over with the
\* error GlycoCTSectionUnsupported, not with a plain GlycoCTError, and that
\* step yielded no Glycan.
C6_UnsupportedSection ==
    SectionToken =>
        /\ parser.over
        /\ parser.error.type = "GlycoCTSectionUnsupported"
        /\ ~parser.yielded

\* a structure with a residue and a link section open meets REP, and a
\* structure with a residue meets a repeat line
C6_Witness ==
    /\ parser.G.n > 0
    /\ parser.error.type = "GlycoCTSectionUnsupported"
    /\ \/ parser.last = <<REP>> /\ parser.state = LIN
       \/ parser.last = <<"2", "r", ":", "r1">> /\ parser.state = RES

\* the shape of token is one the parser takes in state
Allowed(token, state) ==
    \/ token = <<RES>>
    \/ token = <<LIN>> /\ state = RES
    \/ IsResidueLine(token) /\ state = RES
    \/ IsSubstituentLine(token) /\ state = RES
    \/ IsLinkLine(token) /\ state = LIN

Unsupported(token, state) ==
    \/ token \in {<<REP>>, <<ALT>>, <<UND>>}
    \/ IsRepeatLine(token) /\ state = RES

C7_Step ==
    parser'.consumed = parser.consumed + 1 =>
        LET token == parser'.last
        IN IF Allowed(token, parser.state) \/ Unsupported(token, parser.state)
           THEN Allowed(token, parser.state) /\ parser'.error = NoError =>
                    /\ token = <<RES>> => parser'.state = RES
                    /\ token = <<LIN>> => parser'.state = LIN
           ELSE /\ parser'.over
                /\ parser'.error.type = "GlycoCTError"
                /\ Contains(parser'.error.message, token)
                /\ parser'.G = parser.G
                /\ parser'.graph = parser.graph
                /\ parser'.root = parser.root
                /\ parser'.state = parser.state
                /\ pout' = pout

\* C7: a token whose shape is not allowed in the current state (a residue or
\* substituent line outside RES, a link line outside LIN, a LIN header
\* outside RES, any unrecognised token), the unsupported sections apart, ends
\* parsing with a GlycoCTError whose message carries the token; the graph,
\* the root, the state and the Glycans yielded are as before the token.
C7_GrammarError == [][C7_Step]_vars

\* a residue line after LIN, with a residue already built, was refused
C7_Witness ==
    /\ parser.state = LIN
    /\ parser.G.n > 0
    /\ IsResidueLine(parser.last)
    /\ parser.error.type = "GlycoCTError"

\* C8: right after a RES header that found a graph built, the Glycan just
\* yielded is rooted at the first residue line parsed, holds each residue
\* read since the previous RES header once, each substituent read and each
\* link read, and the parser keeps nothing of the structure.
C8_YieldsStructureRead ==
    (parser.yielded /\ parser.last = <<RES>>) =>
        LET g == pout[Len(pout)]
        IN /\ g.kind[g.root] = "b"
           /\ \A x \in 1..(g.root - 1) : g.kind[x] = "s"
           /\ \A x \in 1..g.n :
                IF g.kind[x] = "b"
                THEN Count(g.index, x) = 1
                ELSE \E y \in 1..g.n : \E k \in DOMAIN g.substituent_links[y] :
                         g.substituent_links[y][k].child = x
           /\ \A i \in DOMAIN g.L : Count(g.link_index, i) = 1
           /\ parser.G = NoGraph
           /\ parser.graph = NoEntries
           /\ parser.root = 0

(***************************************************************************)
(* Two Monosaccharides and the Links between them: add_monosaccharide,     *)
(* Link.break_link(refund=True), Link.apply() and toggle().                *)
(***************************************************************************)
MaxDuoLinks == 2
MaxBreaks == 2

\* the maps of residue x that is_occupied reads: how many Links x.links holds
\* under each position (a detached Link stays in the map)
View(G, x) ==
    [modifications |-> [k \in Keys |-> <<>>],
     links |-> [k \in Keys |-> Len(SelectSeq(G.items[x], LAMBDA i : PosAt(G.L[i], x) = k))],
     substituent_links |->
         [k \in Keys |->
             IF "substituent_links" \in DOMAIN G
             THEN Len(SelectSeq(G.substituent_links[x], LAMBDA l : l.ppos = k))
             ELSE 0],
     composition |-> G.comp[x]]

\* an add_monosaccharide that makes the Link before it looks at the child
AddMonosaccharide_linkfirst(G, x, y, position, child_position, max_occupancy) ==
    LET po == is_occupied(View(G, x), position)
        co == is_occupied(View(G, y), child_position)
        linked == NewLink(G, MkLink(x, y, position, child_position, DefaultParentLoss,
                                    DefaultChildLoss, FreshLinkId(Len(G.L) + 1)))
    IN IF po.raises # "none" THEN [G |-> G, result |-> po.raises]
       ELSE IF po.value > max_occupancy THEN [G |-> G, result |-> "ValueError"]
       ELSE IF co.raises # "none" THEN [G |-> linked, result |-> co.raises]
       ELSE IF co.value > max_occupancy THEN [G |-> linked, result |-> "ValueError"]
       ELSE [G |-> linked, result |-> "ok"]

\* x.add_monosaccharide(y, position, max_occupancy, child_position): the graph
\* afterwards and how the call ended
AddMonosaccharide(G, x, y, position, child_position, max_occupancy) ==
    LET po == is_occupied(View(G, x), position)
        co == is_occupied(View(G, y), child_position)
    IN IF po.raises # "none" THEN [G |-> G, result |-> po.raises]
       ELSE IF po.value > max_occupancy THEN [G |-> G, result |-> "ValueError"]
       ELSE IF co.raises # "none" THEN [G |-> G, result |-> co.raises]
       ELSE IF co.value > max_occupancy THEN [G |-> G, result |-> "ValueError"]
       ELSE [G |-> NewLink(G, MkLink(x, y, position, child_position, DefaultParentLoss,
                                     DefaultChildLoss, FreshLinkId(Len(G.L) + 1))),
             result |-> "ok"]

DuoCall(op, parent, child, position, child_position, max_occupancy, result) ==
    [op |-> op, parent |-> parent, child |-> child, position |-> position,
     child_position |-> child_position, max_occupancy |-> max_occupancy,
     result |-> result, before |-> duo.G]

\* the positions callers pass: 'x', one below the backbone, two on it, one beyond
DuoPositionArgs == {UnknownX, 0, 1, 2, SuperclassSize + 1}

\* two new residues of superclass tri, not linked
DuoGraph ==
    [EmptyGraph(2, <<TRUE, TRUE>>, <<0, 0>>) EXCEPT !.comp = <<TriComposition, TriComposition>>]

DuoAddMonosaccharide ==
    \E x \in 1..2, position \in DuoPositionArgs, child_position \in DuoPositionArgs,
       max_occupancy \in 0..1 :
       LET y == 3 - x
           r == AddMonosaccharide(duo.G, x, y, position, child_position, max_occupancy)
       IN /\ Len(duo.G.L) < MaxDuoLinks
          /\ duo.masked = <<>>
          /\ duo' = [duo EXCEPT !.G = r.G,
                                !.breaks = IF r.result = "ok" THEN Append(@, 0) ELSE @,
                                !.last = DuoCall("add_monosaccharide", x, y, position,
                                                 child_position, max_occupancy, r.result)]
          /\ UNCHANGED <<src, work, gen, out, snap, mono, monoLast, parser, pout, omm, tree, strees, eq>>

\* link.break_link(refund=True) on an attached Link
DuoBreakLink ==
    \E li \in DOMAIN duo.G.L :
       /\ is_attached(duo.G.L[li])
       /\ duo.masked = <<>>
       /\ duo.breaks[li] < MaxBreaks
       /\ duo' = [duo EXCEPT !.G = LinkBreak(duo.G, li),
                             !.breaks[li] = @ + 1,
                             !.last = DuoCall("break_link", li, li, -1, -1, 0, "ok")]
       /\ UNCHANGED <<src, work, gen, out, snap, mono, monoLast, parser, pout, omm, tree, strees, eq>>

\* link.apply() on a detached Link
DuoApply ==
    \E li \in DOMAIN duo.G.L :
       /\ ~is_attached(duo.G.L[li])
       /\ duo.masked = <<>>
       /\ duo' = [duo EXCEPT !.G = LinkApply(duo.G, li),
                             !.last = DuoCall("apply", li, li, -1, -1, 0, "ok")]
       /\ UNCHANGED <<src, work, gen, out, snap, mono, monoLast, parser, pout, omm, tree, strees, eq>>

\* toggle(x), first step: release(x) breaks every Link of x that is attached
DuoMask ==
    \E x \in 1..2 :
       /\ duo.masked = <<>>
       /\ duo.G.items[x] # <<>>
       /\ \A j \in DOMAIN duo.G.items[x] : duo.breaks[duo.G.items[x][j]] < MaxBreaks
       /\ duo' = [duo EXCEPT !.G = release(duo.G, duo.G.items[x]),
                             !.masked = duo.G.items[x],
                             !.breaks = [li \in DOMAIN duo.breaks |->
                                           IF li \in Range(duo.G.items[x])
                                              /\ is_attached(duo.G.L[li])
                                           THEN duo.breaks[li] + 1 ELSE duo.breaks[li]],
                             !.last = DuoCall("mask", x, x, -1, -1, 0, "ok")]
       /\ UNCHANGED <<src, work, gen, out, snap, mono, monoLast, parser, pout, omm, tree, strees, eq>>

\* toggle(x), second step: try_apply() on every Link the first step listed
DuoUnmask ==
    /\ duo.masked # <<>>
    /\ duo' = [duo EXCEPT !.G = unmask(duo.G, duo.masked),
                          !.masked = <<>>,
                          !.last = DuoCall("unmask", 0, 0, -1, -1, 0, "ok")]
    /\ UNCHANGED <<src, work, gen, out, snap, mono, monoLast, parser, pout, omm, tree, strees, eq>>

DuoInit ==
    /\ duo = [G |-> DuoGraph, masked |-> <<>>, breaks |-> <<>>,
              last |-> [op |-> "new", parent |-> 0, child |-> 0, position |-> -1,
                        child_position |-> -1, max_occupancy |-> 0, result |-> "ok",
                        before |-> DuoGraph]]
    /\ src = "none" /\ work = "none" /\ gen = "none" /\ out = "none" /\ snap = "none"
    /\ mono = "none" /\ monoLast = "none" /\ parser = "none" /\ pout = "none"
    /\ omm = "none" /\ tree = "none"
    /\ strees = "none" /\ eq = "none"

DuoNext == DuoAddMonosaccharide \/ DuoBreakLink \/ DuoApply \/ DuoMask \/ DuoUnmask

SpecDuo == DuoInit /\ [][DuoNext]_vars

\* the checks of the last add_monosaccharide, made on the graph it found
DuoParentCheck == is_occupied(View(duo.last.before, duo.last.parent), duo.last.position)
DuoChildCheck == is_occupied(View(duo.last.before, duo.last.child), duo.last.child_position)
DuoCheckFails ==
    \/ DuoParentCheck.raises # "none"
    \/ DuoChildCheck.raises # "none"
    \/ DuoParentCheck.value > duo.last.max_occupancy
    \/ DuoChildCheck.value > duo.last.max_occupancy

\* C11: when add_monosaccharide finds the parent's position or the child's
\* child_position out of range (IndexError) or occupied beyond max_occupancy
\* (ValueError), it ends in that error and the graph is as before the call:
\* no Link, no change of either residue's links or composition.  Otherwise
\* exactly one Link is made.
C11_NoPartialMutation ==
    duo.last.op = "add_monosaccharide" =>
        IF DuoCheckFails
        THEN /\ duo.last.result \in {"IndexError", "ValueError"}
             /\ duo.G = duo.last.before
        ELSE /\ duo.last.result = "ok"
             /\ Len(duo.G.L) = Len(duo.last.before.L) + 1

\* the parent's site was free and the child's site was occupied
C11_Witness ==
    /\ duo.last.op = "add_monosaccharide"
    /\ DuoParentCheck.raises = "none"
    /\ DuoParentCheck.value <= duo.last.max_occupancy
    /\ DuoChildCheck.raises = "none"
    /\ DuoChildCheck.value > duo.last.max_occupancy
    /\ duo.last.result = "ValueError"

\* the losses the attached Links of x take from x
RECURSIVE AttachedLosses(_, _, _)
AttachedLosses(G, x, li) ==
    IF li = 0 THEN CZero
    ELSE LET l == G.L[li]
             mine == CAdd(IF is_attached(l) /\ l.parent = x THEN l.ploss ELSE CZero,
                          IF is_attached(l) /\ l.child = x THEN l.closs ELSE CZero)
         IN CAdd(mine, AttachedLosses(G, x, li - 1))

\* C14: through any number of break_link(refund=True) / apply() calls, each
\* residue's composition is its unlinked composition less the losses of the
\* Links attached to it: a break gives the two losses back, an apply takes
\* them again, nothing drifts; and is_attached() is false after a break and
\* true after an apply.
C14_Reversible ==
    /\ \A x \in 1..2 :
         duo.G.comp[x] = CSub(TriComposition, AttachedLosses(duo.G, x, Len(duo.G.L)))
    /\ duo.last.op = "break_link" =>
         /\ ~is_attached(duo.G.L[duo.last.parent])
         /\ is_attached(duo.last.before.L[duo.last.parent])
    /\ duo.last.op = "apply" =>
         /\ is_attached(duo.G.L[duo.last.parent])
         /\ ~is_attached(duo.last.before.L[duo.last.parent])

\* a Link broken twice is attached again
C14_Witness ==
    /\ duo.last.op = "apply"
    /\ duo.breaks[duo.last.parent] = MaxBreaks
    /\ is_attached(duo.G.L[duo.last.parent])

(***************************************************************************)
(* OrderedMultiMap (utils/multimap.py): contents is a defaultdict(list),   *)
(* written as the set of keys the dict holds (has) and the list at each;   *)
(* key_order is the list of keys in the order they were first put.         *)
(***************************************************************************)
MaxItems == 3

OmmKeyArgs == {1, 2, 3}
OmmValueArgs == {"a", "b"}

\* OrderedMultiMap()
NewOmm == [contents |-> [k \in OmmKeyArgs |-> <<>>], has |-> {}, key_order |-> <<>>]

\* self.contents[key] on a defaultdict(list): a missing key enters the dict
\* with an empty list
Touch(m, key) == [m EXCEPT !.has = @ \cup {key}]

\* MultiMap.__getitem__
OmmGetItem(m, key) == [m |-> Touch(m, key), value |-> m.contents[key]]

\* OrderedMultiMap.__setitem__
OmmSetItem(m, key, value) ==
    [m EXCEPT !.key_order = IF key \in Range(@) THEN @ ELSE Append(@, key),
              !.contents[key] = Append(@, value),
              !.has = @ \cup {key}]

\* MultiMap.pop(key, value)
OmmPop(m, key, value) ==
    IF value \notin Range(m.contents[key])
    THEN [m |-> Touch(m, key), result |-> "ValueError"]
    ELSE LET objs == RemoveFirst(m.contents[key], value)
         IN [m |-> [m EXCEPT !.contents[key] = objs,
                             !.has = IF objs = <<>> THEN @ \ {key} ELSE @ \cup {key}],
             result |-> "ok"]

\* MultiMap.__contains__
OmmContains(m, key) == key \in m.has

\* OrderedMultiMap.__iter__ / keys
OmmKeys(m) == m.key_order

\* OrderedMultiMap.items(): the pairs, and the map after self[key] was read
\* for every key of key_order
RECURSIVE OmmItemsOf(_, _)
OmmItemsOf(m, keys) ==
    IF keys = <<>> THEN <<>>
    ELSE [j \in DOMAIN m.contents[keys[1]] |-> <<keys[1], m.contents[keys[1]][j]>>]
         \o OmmItemsOf(m, Tail(keys))

OmmItems(m) ==
    [m |-> [m EXCEPT !.has = @ \cup Range(m.key_order)],
     value |-> OmmItemsOf(m, m.key_order)]

\* MultiMap.__len__
OmmLen(m) == Len(OmmItemsOf(m, m.key_order))

OmmCall(op, key, value, result) ==
    [op |-> op, key |-> key, value |-> value, result |-> result, before |-> omm.m]

\* map[key] = value
SetItem ==
    \E key \in OmmKeyArgs, value \in OmmValueArgs :
       /\ OmmLen(omm.m) < MaxItems
       /\ omm' = [m |-> OmmSetItem(omm.m, key, value),
                  last |-> OmmCall("setitem", key, value, <<>>)]
       /\ UNCHANGED <<src, work, gen, out, snap, mono, monoLast, parser, pout, duo, tree, strees, eq>>

\* map[key]
GetItem ==
    \E key \in OmmKeyArgs :
       /\ omm' = [m |-> OmmGetItem(omm.m, key).m,
                  last |-> OmmCall("getitem", key, "a", OmmGetItem(omm.m, key).value)]
       /\ UNCHANGED <<src, work, gen, out, snap, mono, monoLast, parser, pout, duo, tree, strees, eq>>

\* map.pop(key, value)
Pop ==
    \E key \in OmmKeyArgs, value \in OmmValueArgs :
       /\ omm' = [m |-> OmmPop(omm.m, key, value).m,
                  last |-> OmmCall("pop", key, value, <<OmmPop(omm.m, key, value).result>>)]
       /\ UNCHANGED <<src, work, gen, out, snap, mono, monoLast, parser, pout, duo, tree, strees, eq>>

\* list(map.items())
Items ==
    /\ omm' = [m |-> OmmItems(omm.m).m,
               last |-> OmmCall("items", 1, "a", <<>>)]
    /\ UNCHANGED <<src, work, gen, out, snap, mono, monoLast, parser, pout, duo, tree, strees, eq>>

OmmInit ==
    /\ omm = [m |-> NewOmm,
              last |-> [op |-> "new", key |-> 1, value |-> "a", result |-> <<>>,
                        before |-> NewOmm]]
    /\ src = "none" /\ work = "none" /\ gen = "none" /\ out = "none" /\ snap = "none"
    /\ mono = "none" /\ monoLast = "none" /\ parser = "none" /\ pout = "none"
    /\ duo = "none" /\ tree = "none"
    /\ strees = "none" /\ eq = "none"

OmmNext == SetItem \/ GetItem \/ Pop \/ Items

SpecOmm == OmmInit /\ [][OmmNext]_vars

\* C12: pop(key, value) removes the first value equal to value at key; when
\* that empties the key's list the key is gone: not contained in the map,
\* not produced by keys(); and a put of a key the map does not contain is a
\* first sighting, so the key is then the last of keys().
C12_PopDropsKey ==
    /\ (omm.last.op = "pop" /\ omm.last.result = <<"ok">>) =>
          /\ omm.m.contents[omm.last.key]
               = RemoveFirst(omm.last.before.contents[omm.last.key], omm.last.value)
          /\ Len(omm.last.before.contents[omm.last.key]) = 1 =>
                /\ ~OmmContains(omm.m, omm.last.key)
                /\ omm.last.key \notin Range(OmmKeys(omm.m))
    /\ (omm.last.op = "setitem" /\ ~OmmContains(omm.last.before, omm.last.key)) =>
          OmmKeys(omm.m)[Len(OmmKeys(omm.m))] = omm.last.key

\* C13: map[key] for a key the map does not contain returns the empty
\* sequence, and afterwards the key is still not contained and keys(),
\* items() and len() give what they gave before.
C13_GetIsPure ==
    (omm.last.op = "getitem" /\ ~OmmContains(omm.last.before, omm.last.key)) =>
        /\ omm.last.result = <<>>
        /\ ~OmmContains(omm.m, omm.last.key)
        /\ OmmKeys(omm.m) = OmmKeys(omm.last.before)
        /\ OmmItems(omm.m).value = OmmItems(omm.last.before).value
        /\ OmmLen(omm.m) = OmmLen(omm.last.before)

(***************************************************************************)
(* Monosaccharide.exact_ordering_equality (the residues built here carry   *)
(* no modifications).                                                      *)
(***************************************************************************)
RECURSIVE exact_ordering_equality(_, _, _, _)
\* zip(self.children(), other.children()) comparing the positions alone
ExactChildren_positions(A, as, B, bs) ==
    \A j \in 1..Len(as) : j <= Len(bs) => A.L[as[j]].ppos = B.L[bs[j]].ppos

RECURSIVE ExactChildren(_, _, _, _)

\* zip(self.children(), other.children()): positions, then the children
ExactChildren(A, as, B, bs) ==
    IF as = <<>> \/ bs = <<>> THEN TRUE
    ELSE /\ A.L[as[1]].ppos = B.L[bs[1]].ppos
         /\ exact_ordering_equality(A, A.L[as[1]].child, B, B.L[bs[1]].child)
         /\ ExactChildren(A, Tail(as), B, Tail(bs))

exact_ordering_equality(A, x, B, y) ==
    /\ FlatEquality(A, x, B, y)
    /\ \A j \in 1..Len(A.substituent_links[x]) :
         j <= Len(B.substituent_links[y]) =>
            /\ A.substituent_links[x][j].ppos = B.substituent_links[y][j].ppos
            /\ A.fields[A.substituent_links[x][j].child]
                 = B.fields[B.substituent_links[y][j].child]
    /\ ExactChildren(A, ChildLinks(A, x), B, ChildLinks(B, y))

(***************************************************************************)
(* A Glycan built link by link from residues made beforehand, indexed,     *)
(* labelled and compared.                                                  *)
(***************************************************************************)
MaxTreeNodes == 4
GivenLinkId == 1

TreePositionArgs == {-1, 3}

\* MaxTreeNodes new residues, none linked; the Glycan's root is the first
RECURSIVE Residues(_)
Residues(n) ==
    IF n = 0 THEN NoGraph
    ELSE NewNode(Residues(n - 1), "b", ResidueFields("x-HEX-1:5"), FreshNodeId(n),
                 HexComposition)

TreeGraph == [Residues(MaxTreeNodes) EXCEPT !.root = 1]

\* the residue a walk up the parent links from x ends at
RECURSIVE TopOf(_, _)
TopOf(G, x) ==
    IF ParentLinksOf(G, x) = <<>> THEN x ELSE TopOf(G, G.L[ParentLinksOf(G, x)[1]].parent)

\* y can be given x as its parent: y is no root, has no parent, is not above x
CanLink(G, x, y) == y # G.root /\ ParentLinksOf(G, y) = <<>> /\ TopOf(G, x) # y

\* Link(parent, child, ..., id=id) as handle_linkage makes it
GivenLink(G, x, y, position, child_position) ==
    NewLink(G, MkLink(x, y, position, child_position, DefaultParentLoss, DefaultChildLoss,
                      GivenLinkId))

TreeCall(op, arg, result) == [op |-> op, arg |-> arg, result |-> result]

\* what a run of label_branches left: the labels, branch_lengths, the error
Labelling(r) ==
    [labels |-> [i \in DOMAIN r.G.L |-> r.G.L[i].label],
     branch_lengths |-> DictItems(r.branch_lengths), error |-> r.error]

\* a run builds, indexes and labels, and ends when it has compared
TreeOver == tree.last.op = "compare"

\* x.add_monosaccharide(y, position), before the Glycan is made of the root
TreeAddMonosaccharide ==
    \E x \in 1..MaxTreeNodes, y \in 1..MaxTreeNodes, position \in TreePositionArgs :
       LET r == AddMonosaccharide(tree.G, x, y, position, -1, 0)
       IN /\ x # y /\ CanLink(tree.G, x, y)
          /\ tree.G.index = <<>> /\ ~TreeOver
          /\ r.result = "ok"
          /\ tree' = [tree EXCEPT !.G = r.G, !.runs = <<>>,
                                  !.last = TreeCall("add_monosaccharide", <<x, y>>, <<>>)]
          /\ UNCHANGED <<src, work, gen, out, snap, mono, monoLast, parser, pout, duo, omm, strees, eq>>

\* Link(x, y, ..., id=GivenLinkId)
TreeLink ==
    \E x \in 1..MaxTreeNodes, y \in 1..MaxTreeNodes :
       /\ x # y /\ CanLink(tree.G, x, y)
       /\ tree.G.index = <<>> /\ ~TreeOver
       /\ tree' = [tree EXCEPT !.G = GivenLink(tree.G, x, y, -1, -1), !.runs = <<>>,
                               !.last = TreeCall("Link", <<x, y>>, <<>>)]
       /\ UNCHANGED <<src, work, gen, out, snap, mono, monoLast, parser, pout, duo, omm, strees, eq>>

\* glycan.reindex(method)
TreeReindex ==
    \E method \in {"dfs", "bfs"} :
       LET r == reindex_by(tree.G, method)
       IN /\ tree.last.op # "reindex" /\ ~TreeOver
          /\ tree' = [tree EXCEPT !.G = r.G, !.branch_lengths = r.branch_lengths,
                                  !.runs = <<Labelling(r)>>,
                                  !.last = TreeCall("reindex", <<method>>, <<r.error>>)]
          /\ UNCHANGED <<src, work, gen, out, snap, mono, monoLast, parser, pout, duo, omm, strees, eq>>

\* glycan.label_branches()
TreeLabelBranches ==
    LET r == label_branches(tree.G)
    IN /\ Len(tree.runs) < 2 /\ ~TreeOver
       /\ tree' = [tree EXCEPT !.G = r.G, !.branch_lengths = r.branch_lengths,
                               !.runs = Append(@, Labelling(r)),
                               !.last = TreeCall("label_branches", <<>>, <<r.error>>)]
       /\ UNCHANGED <<src, work, gen, out, snap, mono, monoLast, parser, pout, duo, omm, strees, eq>>

\* the same residues linked by the same Links, made in the order p
RECURSIVE Relink(_, _, _)
Relink(T, links, p) ==
    IF p = <<>> THEN T
    ELSE Relink(NewLink(T, [links[p[1]] EXCEPT !.att = TRUE, !.label = NoLabel]), links, Tail(p))

Twin(G, p) ==
    Relink([G EXCEPT !.L = <<>>, !.items = [x \in DOMAIN G.items |-> <<>>],
                     !.comp = [x \in DOMAIN G.comp |-> HexComposition]],
           G.L, p)

\* some residue's children come in another order in T, and two that changed
\* places sit at different positions or head subtrees that are not alike
Reordered(G, T) ==
    \E x \in 1..G.n :
       \E j \in DOMAIN ChildLinks(G, x) :
          LET a == G.L[ChildLinks(G, x)[j]]
              b == T.L[ChildLinks(T, x)[j]]
          IN /\ a.child # b.child
             /\ \/ a.ppos # b.ppos
                \/ ~topological_equality(G, a.child, G, b.child)

\* glycan == twin and glycan.topological_equality(twin), once every residue
\* is linked and before the Glycan is indexed or labelled: the twin is built
\* from the same residues with the Links made in another order
TreeCompare ==
    \E p \in Perms(Len(tree.G.L)) :
       LET T == Twin(tree.G, p)
       IN /\ ~TreeOver
          /\ tree.G.index = <<>> /\ tree.runs = <<>>
          /\ Len(tree.G.L) = MaxTreeNodes - 1
          /\ tree' = [tree EXCEPT
                        !.last = [op |-> "compare", arg |-> p,
                                  result |-> <<Reordered(tree.G, T),
                                               topological_equality(tree.G, tree.G.root,
                                                                    T, T.root),
                                               exact_ordering_equality(tree.G, tree.G.root,
                                                                       T, T.root)>>]]
          /\ UNCHANGED <<src, work, gen, out, snap, mono, monoLast, parser, pout, duo, omm, strees, eq>>

TreeInit ==
    /\ tree = [G |-> TreeGraph, branch_lengths |-> <<>>, runs |-> <<>>,
               last |-> TreeCall("new", <<>>, <<>>)]
    /\ src = "none" /\ work = "none" /\ gen = "none" /\ out = "none" /\ snap = "none"
    /\ mono = "none" /\ monoLast = "none" /\ parser = "none" /\ pout = "none"
    /\ duo = "none" /\ omm = "none"
    /\ strees = "none" /\ eq = "none"

TreeNext ==
    TreeAddMonosaccharide \/ TreeLink \/ TreeReindex \/ TreeLabelBranches \/ TreeCompare

SpecTree == TreeInit /\ [][TreeNext]_vars


(***************************************************************************)
(* Claims about equality, indexing, traversal order and branch labels.     *)
(***************************************************************************)

C16_LabelBranchesIdempotent ==
    (Len(tree.runs) = 2 /\ tree.runs[1].error = "none") => tree.runs[2] = tree.runs[1]

\* the branch x lies on: the key of the label of the link x hangs from
BranchOf(G, x) ==
    IF ParentLinksOf(G, x) = <<>> THEN MAIN_BRANCH_SYM
    ELSE G.L[ParentLinksOf(G, x)[1]].label.key

\* C20: after label_branches, at a residue with more than one non-parent link
\* the first of them continues the branch the residue lies on, and only the
\* additional links are given fresh letters.
C20_FirstLinkContinuesBranch ==
    (tree.last.op \in {"reindex", "label_branches"} /\ tree.last.result = <<"none">>) =>
        \A x \in 1..tree.G.n :
           (x \in Range(depth_first_traversal(tree.G, tree.G.root))
              /\ Len(ChildLinks(tree.G, x)) > 1) =>
               tree.G.L[ChildLinks(tree.G, x)[1]].label.key = BranchOf(tree.G, x)

\* a is visited before b in the traversal the index records
VisitedBefore(G, a, b) == PositionIn(G.index, a) < PositionIn(G.index, b)

\* C17: in depth-first and in breadth-first traversal alike, the children of
\* an expanded residue are visited in descending order(), and children of
\* equal order() in the order their links were inserted.
C17_SiblingOrder ==
    (tree.last.op = "reindex" /\ tree.last.result = <<"none">>) =>
        \A i, j \in DOMAIN tree.G.L :
           LET a == tree.G.L[i].child
               b == tree.G.L[j].child
           IN (/\ tree.G.L[i].parent = tree.G.L[j].parent
               /\ {a, b} \subseteq Range(tree.G.index)
               /\ \/ order(tree.G, a) > order(tree.G, b)
                  \/ order(tree.G, a) = order(tree.G, b) /\ i < j)
              => VisitedBefore(tree.G, a, b)

\* the links between residues that can be reached from the root
TreeLinks(G) ==
    {i \in DOMAIN G.L : G.L[i].att /\ G.L[i].parent \in Range(depth_first_traversal(G, G.root))}

\* C18: after reindex on a connected tree of N residues with distinct ids,
\* whatever ids its links held, the residue ids are 1..N in index order,
\* link_index holds every link once and the link ids are 1..N-1 in
\* link_index order.
C18_ReindexSequentialIds ==
    (tree.last.op = "reindex" /\ Len(tree.G.L) = MaxTreeNodes - 1) =>
        /\ Len(tree.G.index) = tree.G.n
        /\ \A k \in DOMAIN tree.G.index : tree.G.id[tree.G.index[k]] = k
        /\ Range(tree.G.link_index) = TreeLinks(tree.G)
        /\ Len(tree.G.link_index) = tree.G.n - 1
        /\ \A k \in DOMAIN tree.G.link_index : tree.G.L[tree.G.link_index[k]].id = k

(***************************************************************************)
(* The two trees a broken Link leaves.                                     *)
(***************************************************************************)
\* the residues reached by traversal from x
Reached(G, x) == Range(depth_first_traversal(G, x))

\* break_links has just broken the current Link and has yielded nothing for it
JustBroken ==
    /\ gen.pc = "broken"
    /\ gen.pending = LinkFrags(EngineGraph, CurrentLink, gen.i - 1, gen.K, gen.ord)

\* the Fragment f holds exactly the ids of the residues in S
Includes(f, G, S) ==
    /\ Range(f.included_nodes) = {G.id[y] : y \in S}
    /\ Len(f.included_nodes) = Cardinality(S)

\* C19: right after break_links has broken a Link, the residues reached from
\* its parent and those reached from its child are disjoint and together are
\* the residues of the tree being fragmented, the root is among those reached
\* from the parent, and the Y/Z and the B/C Fragment of the Link hold the
\* parent's and the child's residues.
C19_DisjointSubtrees ==
    JustBroken =>
        LET G == EngineGraph
            l == G.L[CurrentLink]
            P == Reached(G, l.parent)
            C == Reached(G, l.child)
        IN /\ P \cap C = {}
           /\ P \cup C = Reached(snap, snap.root)
           /\ G.root \in P
           /\ gen.i = 1 =>
                 \A j \in DOMAIN gen.pending :
                    LET f == gen.pending[j]
                    IN /\ f.kind[1].letter \in {"Y", "Z"} => Includes(f, G, P)
                       /\ f.kind[1].letter \in {"B", "C"} => Includes(f, G, C)

(***************************************************************************)
(* drop_modification against add_modification.                             *)
(***************************************************************************)
\* this step is the call drop_modification(position, modification)
DropStep(position, modification) ==
    /\ monoLast'.op = "drop_modification"
    /\ monoLast'.position = position /\ monoLast'.what = modification

\* a drop_modification of the pair the call before it added gives back the
\* residue as it was before the add; a drop_modification of a pair that is
\* not there raises ValueError and changes nothing
C23_Step ==
    /\ (LastAdd /\ monoLast.result = "ok" /\ DropStep(monoLast.position, monoLast.what)) =>
           (monoLast'.result = "ok" /\ mono' = monoLast.before)
    /\ \A position \in Keys, modification \in ModificationArgs :
           (DropStep(position, modification)
              /\ Count(mono.modifications[position], StoredAs(modification)) = 0) =>
               (monoLast'.result = "ValueError" /\ mono' = mono)

\* C23: a successful add_modification(m, p) followed by drop_modification(p, m)
\* succeeds and restores the composition, the modifications and the reducing
\* end, for every modification, aldi included; a drop_modification of a pair
\* that is not present fails with the not-found error and changes nothing.
C23_DropMirrorsAdd == [][C23_Step]_vars

(***************************************************************************)
(* How many Glycans the parser yields.                                     *)
(***************************************************************************)
\* the structure being read holds a residue line: the first one made the root
HasResidue(P) == P.root # 0

\* the step reads a RES header, or finds the stream at its end
ClosesStructure ==
    \/ parser'.consumed = parser.consumed + 1 /\ parser'.last = <<RES>>
    \/ parser'.consumed = parser.consumed /\ parser'.over

\* a step yields one Glycan when it closes a structure that holds a residue
\* line, and no Glycan otherwise
C25_Step ==
    Len(pout') = Len(pout) + (IF ClosesStructure /\ HasResidue(parser) THEN 1 ELSE 0)

\* C25: the parser yields one Glycan per structure that holds at least one
\* residue line, at the next RES header or at the end of input, and nothing
\* else: empty input, or a RES header followed by no residue line, yields no
\* Glycan.
C25_OneGlycanPerStructure == [][C25_Step]_vars

(***************************************************************************)
(* Fragment names and the ids they are read through.                       *)
(***************************************************************************)
\* the yielded Fragments that came from glycosidic cleavages only and were named
Glycosidic(j) == out[j].named /\ \A h \in DOMAIN out[j].kind : out[j].kind[h].ring = <<>>

\* the Link of the caller's Glycan that an id of a Fragment names
LinkNamed(id) == src.L[LinkIndexAt(src, id)]

\* C21: a single-cleavage fragment is named from the label of its broken link:
\* with the label's distance as it is for the kinds A, B and C, and with the
\* inverted distance branch_length - (distance - 1) for the kinds X, Y and Z.
C21_NamePolarity ==
    \A j \in DOMAIN out :
        (Glycosidic(j) /\ Len(out[j].link_ids) = 1) =>
            LET ion_type == out[j].kind[1]
                label == LinkNamed(out[j].link_ids[1]).label
            IN out[j].name =
                 <<NamePart(ion_type, label.key,
                            IF ion_type.letter \in {"A", "B", "C"} THEN label.depth
                            ELSE BranchLength(src, label.key) - (label.depth - 1))>>

\* C30: the name of a fragment with several glycosidic cleavages has one
\* component per broken link, and the component of each ion letter is derived
\* from the label of the link whose id is paired with that letter.
C30_OwnLinkLabel ==
    \A j \in DOMAIN out :
        (Glycosidic(j) /\ Len(out[j].link_ids) >= 2) =>
            /\ Len(out[j].name) = Len(out[j].link_ids)
            /\ \A h \in DOMAIN out[j].link_ids :
                 \E p \in DOMAIN out[j].name :
                     out[j].name[p] = LabelName(src, out[j].kind[h],
                                                LinkIndexAt(src, out[j].link_ids[h]))

Cleavages(f) == {<<f.kind[h], f.link_ids[h]>> : h \in DOMAIN f.link_ids}

\* C28: one fragments() call with max_cleavages >= 2 yields no two fragments with
\* the same broken links (and ions at them) and the same included nodes.
C28_InternalOnce ==
    \A j, h \in DOMAIN out :
        (j < h /\ Len(out[j].link_ids) >= 2 /\ Len(out[j].kind) = Len(out[j].link_ids)) =>
            ~(/\ Cleavages(out[j]) = Cleavages(out[h])
              /\ Range(out[j].included_nodes) = Range(out[h].included_nodes))

\* fragments() has made its clone and works on it
OnClone == gen.i > 0 /\ ~gen.alias

\* the Link of G that joins the same two residues as Link l
Counterpart(G, l) == {i \in DOMAIN G.L : G.L[i].parent = l.parent /\ G.L[i].child = l.child}

MaxMinSize == 2

\* Glycan(root=x, index_method=None) on residues that are already linked
Subtree(G, x) ==
    [G EXCEPT !.root = x, !.index = <<>>, !.link_index = <<>>, !.branch_lengths = {}]

\* Link.clone of a Link that is detached: the new Link is attached as every
\* new Link is, or it is left in the state of the Link it copies (keeps)
RECURSIVE CloneStates(_, _, _, _)
CloneStates(G, C, i, keeps) ==
    IF i > Len(C.L) THEN C
    ELSE LET from == CHOOSE h \in DOMAIN G.L :
                         G.L[h].parent = C.L[i].parent /\ G.L[h].child = C.L[i].child
         IN CloneStates(G, IF keeps /\ ~is_attached(G.L[from]) THEN LinkBreak(C, i) ELSE C,
                        i + 1, keeps)

\* Glycan.clone(index_method=None)
CloneUnindexed(G, keeps) == CloneStates(G, graph_clone(G), 1, keeps)

\* Glycan.reroot(): the root becomes the node of least id, then reindex()
reroot(G) ==
    LET nodes == depth_first_traversal(G, G.root)
        least == CHOOSE x \in Range(nodes) : \A y \in Range(nodes) : G.id[x] <= G.id[y]
    IN reindex([G EXCEPT !.root = least])

DisjointTrees(parent_tree, parent_include_nodes, child_tree, child_include_nodes, link_ids) ==
    [parent_tree |-> parent_tree, parent_include_nodes |-> parent_include_nodes,
     child_tree |-> child_tree, child_include_nodes |-> child_include_nodes,
     link_ids |-> link_ids]

\* the frame of a run of break_links_subtrees: the graph, what was yielded (with
\* the graph as it was at each yield), and whether an apply() has failed
SubFrame(G) == [G |-> G, yielded |-> <<>>, error |-> FALSE]

\* F(v), with v worked out once
With(v, F(_)) == CHOOSE y \in {F(x) : x \in {v}} : TRUE

RECURSIVE SubtreesRun(_, _, _, _, _)

\* lines 1046-1058: the two trees of Link li, just broken in G1, and the tuple
\* that is yielded for them, with the graph as it is at the yield
SubtreesHere(G1, li, A) ==
    LET l == G1.L[li]
    IN With(GlycanOrder(reroot(CloneUnindexed(Subtree(G1, l.parent), A.keeps))),
         LAMBDA parent_order :
            With(GlycanOrder(reroot(CloneUnindexed(Subtree(G1, l.child), A.keeps))),
              LAMBDA child_order :
                 IF parent_order > A.min_size \/ child_order > A.min_size
                 THEN <<[trees |-> DisjointTrees(parent_order, IncludeIds(G1, l.parent),
                                                 child_order, IncludeIds(G1, l.child),
                                                 <<l.id>> \o A.outer),
                         G |-> G1]>>
                 ELSE <<>>))

\* lines 1059-1069: the nested call on the tree of x, when there are Links left
\* to break and the tree is larger than min_size
SubtreesInner(S, li, x, A) ==
    IF ~S.error /\ A.n_links > 0 /\ GlycanOrder(Subtree(S.G, x)) > A.min_size
    THEN SubtreesRun(S, <<x>>, {}, {},
                     [A EXCEPT !.n_links = A.n_links - 1,
                               !.outer = <<S.G.L[li].id>> \o A.outer])
    ELSE S

\* lines 1070-1073, finally: link.apply()
SubtreesFinally(S, li, A) ==
    IF ~is_attached(S.G.L[li]) THEN [S EXCEPT !.G = LinkApply(S.G, li)]
    ELSE IF A.strict THEN [S EXCEPT !.error = TRUE]
    ELSE S

\* lines 1042-1073: the loop body for Link li.  A holds n_links (already
\* decremented), min_size, the ids broken by the callers (outer), and the two
\* choices the Link class leaves open (keeps, strict)
SubtreesBody(S, li, A) ==
    With(LinkBreak(S.G, li), LAMBDA G1 :
      With(SubtreesHere(G1, li, A), LAMBDA here :
        With(SubtreesInner([S EXCEPT !.G = G1, !.yielded = @ \o here],
                           li, G1.L[li].parent, A), LAMBDA S2 :
          With(SubtreesInner(S2, li, G1.L[li].child, A), LAMBDA S3 :
            SubtreesFinally(S3, li, A)))))

\* links(node) of iterlinks, consumed by the loop: the Links of one residue
\* that no residue before it has shown
RECURSIVE SubtreesOfNode(_, _, _, _)
SubtreesOfNode(S, its, seen, A) ==
    IF its = <<>> \/ S.error THEN [S |-> S, seen |-> seen]
    ELSE IF S.G.L[its[1]].id \in seen THEN SubtreesOfNode(S, Tail(its), seen, A)
    ELSE With(SubtreesBody(S, its[1], A), LAMBDA S1 :
           With(seen \cup {S.G.L[its[1]].id}, LAMBDA seen1 :
             SubtreesOfNode(S1, Tail(its), seen1, A)))

\* for pos, link in self.iterlinks(): the traversal goes on to the neighbours
\* of a residue after the loop has dealt with that residue's Links
SubtreesRun(S, stack, visited, seen, A) ==
    IF stack = <<>> \/ S.error THEN S
    ELSE LET node == stack[Len(stack)]
         IN With(SubtreesOfNode(S, S.G.items[node], seen, A), LAMBDA r :
              With([stack |-> SubSeq(stack, 1, Len(stack) - 1)
                                \o SortedByOrder(r.S.G,
                                     FlatTerminals(r.S.G, node, r.S.G.items[node],
                                                   visited \cup {S.G.id[node]})),
                    visited |-> visited \cup {S.G.id[node]}], LAMBDA t :
                SubtreesRun(r.S, t.stack, t.visited, r.seen, A)))

\* break_links_subtrees(n_links, min_size) on the whole Glycan
break_links_subtrees(G, n_links, min_size, keeps, strict) ==
    SubtreesRun(SubFrame(G), <<G.root>>, {}, {},
                [n_links |-> n_links - 1, min_size |-> min_size, outer |-> <<>>,
                 keeps |-> keeps, strict |-> strict])

IdleSub(G) ==
    [G |-> G, before |-> G, pc |-> "idle", max_cleavages |-> 0, min_cleavages |-> 0,
     min_size |-> 0, keeps |-> FALSE, strict |-> FALSE,
     pending |-> <<>>, last |-> G, error |-> FALSE, results |-> <<>>]

\* substructures(max_cleavages, min_cleavages, min_size) is called: a generator
\* object is made and nothing runs yet
CallSubstructures ==
    /\ strees.pc = "idle"
    /\ \E max_cleavages \in 1..MaxCleavages, min_size \in 1..MaxMinSize,
          keeps \in BOOLEAN, strict \in BOOLEAN :
         \E min_cleavages \in 1..max_cleavages :
           strees' = [strees EXCEPT !.pc = "created", !.max_cleavages = max_cleavages,
                                    !.min_cleavages = min_cleavages, !.min_size = min_size,
                                    !.keeps = keeps, !.strict = strict]
    /\ UNCHANGED <<src, work, gen, out, snap, mono, monoLast, parser, pout, duo, omm, tree, eq>>

\* the first next(): break_links_subtrees(max_cleavages, min_size=min_size) starts
SubStart ==
    /\ strees.pc = "created"
    /\ LET r == break_links_subtrees(strees.G, strees.max_cleavages, strees.min_size,
                                     strees.keeps, strees.strict)
       IN strees' = [strees EXCEPT !.pc = "running", !.pending = r.yielded,
                                   !.last = r.G, !.error = r.error]
    /\ UNCHANGED <<src, work, gen, out, snap, mono, monoLast, parser, pout, duo, omm, tree, eq>>

\* yield results_container(*frag): the Glycan is as the loop has left it
SubYield ==
    /\ strees.pc = "running"
    /\ strees.pending # <<>>
    /\ strees' = [strees EXCEPT !.G = Head(strees.pending).G,
                                !.results = Append(@, Head(strees.pending).trees),
                                !.pending = Tail(strees.pending)]
    /\ UNCHANGED <<src, work, gen, out, snap, mono, monoLast, parser, pout, duo, omm, tree, eq>>

\* the generator comes to its end, or to the apply() that failed
SubFinish ==
    /\ strees.pc = "running"
    /\ strees.pending = <<>>
    /\ strees' = [strees EXCEPT !.G = strees.last,
                                !.pc = IF strees.error THEN "failed" ELSE "done"]
    /\ UNCHANGED <<src, work, gen, out, snap, mono, monoLast, parser, pout, duo, omm, tree, eq>>

\* the Glycans substructures() is run on: those of closed, unsubstituted residues
\* linked with the default losses
SubGlycans ==
    {G \in Glycans : /\ \A x \in 1..G.n : G.closed[x] /\ G.nsub[x] = 0
                     /\ \A i \in DOMAIN G.L : G.L[i].ploss = DefaultParentLoss}

SubInit ==
    /\ strees \in {IdleSub(G) : G \in SubGlycans}
    /\ src = "none" /\ work = "none" /\ gen = "none" /\ out = "none" /\ snap = "none"
    /\ mono = "none" /\ monoLast = "none" /\ parser = "none" /\ pout = "none"
    /\ duo = "none" /\ omm = "none" /\ tree = "none" /\ eq = "none"

SubNext == CallSubstructures \/ SubStart \/ SubYield \/ SubFinish

SpecSub == SubInit /\ [][SubNext]_vars

\* the numbers of residues on the two sides of Link i of the Glycan as it was
\* when substructures() was called
SidesOf(i) ==
    LET G1 == LinkBreak(strees.before, i)
    IN <<Len(depth_first_traversal(G1, G1.L[i].parent)),
         Len(depth_first_traversal(G1, G1.L[i].child))>>

\* C24: substructures() honours min_size: both trees of every result hold at
\* least min_size residues, and every pair of subtrees that both hold at least
\* min_size residues is yielded.
C24_MinSizeHonoured ==
    /\ \A j \in DOMAIN strees.results :
         /\ strees.results[j].parent_tree >= strees.min_size
         /\ strees.results[j].child_tree >= strees.min_size
         /\ Len(strees.results[j].parent_include_nodes) >= strees.min_size
         /\ Len(strees.results[j].child_include_nodes) >= strees.min_size
    /\ (strees.pc = "done" /\ strees.min_cleavages = 1) =>
         \A i \in DOMAIN strees.before.L :
             (is_attached(strees.before.L[i])
                /\ SidesOf(i)[1] >= strees.min_size /\ SidesOf(i)[2] >= strees.min_size) =>
                 \E j \in DOMAIN strees.results :
                     strees.results[j].link_ids = <<strees.before.L[i].id>>

(***************************************************************************)
(* A Glycan built with add_monosaccharide and add_substituent, compared    *)
(* with its clone and with a twin in which one Link sits elsewhere.        *)
(***************************************************************************)
MaxEqNodes == 3
MaxEqSubstituents == 2

\* the position arguments of add_monosaccharide and of add_substituent, and the
\* position a Link of the twin is moved to
EqPositionArgs == {-1, 3}
EqSubstituentPositionArgs == {-1, 2}
EqMovedPosition == 2

EqGraph == [Residues(MaxEqNodes) EXCEPT !.root = 1]

\* x.add_substituent("methyl", position, max_occupancy): the graph afterwards
\* and how the call ended
AddSubstituent(G, x, position, max_occupancy) ==
    LET occ == is_occupied(View(G, x), position)
        G1 == NewNode(G, "s", SubstituentFields("methyl"), FreshNodeId(G.n + 1),
                      MethylComposition)
    IN IF occ.raises # "none" THEN [G |-> G, result |-> occ.raises]
       ELSE IF occ.value > max_occupancy THEN [G |-> G, result |-> "ValueError"]
       ELSE [G |-> NewSubstituentLink(G1, MkLink(x, G1.n, position, 1, SubstituentLoss,
                                                 SubstituentLoss, FreshLinkId(G1.n))),
             result |-> "ok"]

\* the same residues and substituents, Link i made at another parent position
Moved(G, i, position) ==
    Relink(Unlinked(G), [G.L EXCEPT ![i].ppos = position], [j \in 1..Len(G.L) |-> j])

EqCall(op, arg, result) == [op |-> op, arg |-> arg, result |-> result]

\* a run builds a Glycan and ends when it has compared
EqOver == eq.last.op \in {"clone_compare", "move_compare"}

\* x.add_monosaccharide(y, position, max_occupancy)
EqAddMonosaccharide ==
    \E x \in 1..MaxEqNodes, y \in 1..MaxEqNodes, position \in EqPositionArgs,
       max_occupancy \in 0..1 :
       LET r == AddMonosaccharide(eq.G, x, y, position, -1, max_occupancy)
       IN /\ x # y /\ CanLink(eq.G, x, y)
          /\ ~EqOver
          /\ eq' = [eq EXCEPT !.G = r.G,
                              !.last = EqCall("add_monosaccharide",
                                              <<x, y, position, max_occupancy>>, r.result)]
          /\ UNCHANGED <<src, work, gen, out, snap, mono, monoLast, parser, pout, duo, omm, tree, strees>>

\* x.add_substituent("methyl", position, max_occupancy)
EqAddSubstituent ==
    \E x \in 1..MaxEqNodes, position \in EqSubstituentPositionArgs, max_occupancy \in 0..1 :
       LET r == AddSubstituent(eq.G, x, position, max_occupancy)
       IN /\ eq.G.n < MaxEqNodes + MaxEqSubstituents
          /\ ~EqOver
          /\ eq' = [eq EXCEPT !.G = r.G,
                              !.last = EqCall("add_substituent",
                                              <<x, position, max_occupancy>>, r.result)]
          /\ UNCHANGED <<src, work, gen, out, snap, mono, monoLast, parser, pout, duo, omm, tree, strees>>

\* g = Glycan(root); g.topological_equality(g.clone())
EqCloneCompare ==
    LET g == Glycan(eq.G, eq.G.root)
        c == GlycanClone(g)
    IN /\ ~EqOver
       /\ eq' = [eq EXCEPT !.G = g,
                           !.last = EqCall("clone_compare", <<>>,
                                           topological_equality(g, g.root, c, c.root))]
       /\ UNCHANGED <<src, work, gen, out, snap, mono, monoLast, parser, pout, duo, omm, tree, strees>>

\* Glycan(root).topological_equality(Glycan(twin root)): the twin differs in the
\* parent position of one Link below the root, moved from one known position to
\* another that is free
EqMoveCompare ==
    \E i \in DOMAIN eq.G.L :
       LET l == eq.G.L[i]
           g == Glycan(eq.G, eq.G.root)
           t == Glycan(Moved(eq.G, i, EqMovedPosition), eq.G.root)
       IN /\ ~EqOver
          /\ l.ppos \notin {-1, EqMovedPosition}
          /\ is_occupied(View(eq.G, l.parent), EqMovedPosition).value = 0
          /\ l.parent \in Range(depth_first_traversal(eq.G, eq.G.root))
          /\ eq' = [eq EXCEPT !.G = g,
                              !.last = EqCall("move_compare", <<i>>,
                                              topological_equality(g, g.root, t, t.root))]
          /\ UNCHANGED <<src, work, gen, out, snap, mono, monoLast, parser, pout, duo, omm, tree, strees>>

EqInit ==
    /\ eq = [G |-> EqGraph, last |-> EqCall("new", <<>>, "ok")]
    /\ src = "none" /\ work = "none" /\ gen = "none" /\ out = "none" /\ snap = "none"
    /\ mono = "none" /\ monoLast = "none" /\ parser = "none" /\ pout = "none"
    /\ duo = "none" /\ omm = "none" /\ tree = "none" /\ strees = "none"

EqNext == EqAddMonosaccharide \/ EqAddSubstituent \/ EqCloneCompare \/ EqMoveCompare

SpecEq == EqInit /\ [][EqNext]_vars

\* C26: topological equality respects linkage positions: two glycans that differ
\* only in the position at which a child is attached are not topologically equal.
C26_PositionsRespected ==
    eq.last.op = "move_compare" => eq.last.result = FALSE

\* C27: a Glycan is topologically equal to its clone, also when a residue has
\* several substituents at one position or at the unknown position, and when
\* several children hang from one position.
C27_CloneReflexive ==
    eq.last.op = "clone_compare" => eq.last.result = TRUE
====
